---- MODULE Spec2Model ----
(***************************************************************************)
(* A model of termshot: the virtual terminal emulator (package ansi), the  *)
(* command of the CLI (package cmd), the shell lexer (package highlight)   *)
(* and the content accumulation of the image scaffold (package img).       *)
(*                                                                         *)
(* Go slices are 0-based, TLA+ sequences 1-based: the model keeps the Go   *)
(* indices (i, cursorX, cursorY, pos) and reads element k of a slice s as  *)
(* s[k + 1].                                                               *)
(***************************************************************************)
EXTENDS Integers, Sequences, FiniteSets, TLC

VARIABLES
    \* package ansi, VirtualTerminal.Parse
    parsed,      \* the decoded input, *parsed (a bunt.String)
    i,           \* the index of the main loop
    vt,          \* the VirtualTerminal: lines, cursorX, cursorY, maxColumns
    pc,          \* "idle" | "loop" | "done" (returned) | "panic" (index out of range)
    result,      \* the returned bunt.String (toBuntString)
    iterations,  \* the number of completed iterations of the main loop
    \* package img, the Scaffold
    scaffold,    \* content, columns, noPromptDetect, currentTheme
    termCols,    \* the columns term.GetTerminalSize reports
    in,          \* the stream handed to the last AddContent
    \* package cmd, rootCmd.RunE
    flags,       \* the command-line flags of the run
    source,      \* the captured output or the raw-read file
    buf,         \* the bytes.Buffer of RunE
    stage,       \* the position of RunE
    ansi,        \* how the call of vt.Parse in RunE ended: "none" | "ok" | "error"
    written,     \* what WriteRaw wrote
    \* package highlight, the Lexer
    l,           \* the Lexer: input, pos, tokens
    isFirstWord, \* Tokenize: the flag of the same name
    lexpc,       \* "idle" | "loop" | "done"
    \* package img, Scaffold.WritePNG
    raster,      \* the image Scaffold.image returns: its size and opaque pixels
    clipCanvas,  \* the clipCanvas field of the Scaffold
    encoded,     \* what png.Encode was given, <<>> before the call
    \* package cmd and package theme: the theme of the run
    themeFlags,  \* the flags --theme and --theme-file (the file by its content)
    themePc,     \* "start" | "failed" (RunE returned the error) | "themed" | "drawn"
    colorIn,     \* the arguments of the last remapAnsiColor, <<>> before the call
    colorOut,    \* the colour it returned
    \* package cmd, rootCmd.RunE: its files and its result
    open,        \* the files RunE holds open: "tmpFile", "output", "file"
    disk,        \* the files RunE created that exist
    deferred,    \* the deferred calls of RunE
    rasterized,  \* whether Scaffold.image was called
    runErr,      \* the error RunE returned, by its origin, or "none"
    called       \* what RunE has called: "AddCommand", "pt.Command" (the command
                 \* in the pseudo terminal), "readFile", "CreateTemp", "editor"

vtVars == <<parsed, i, vt, pc, result, iterations>>
imgVars == <<scaffold, termCols, in>>
cmdVars == <<flags, source, buf, stage, ansi, written>>
lexVars == <<l, isFirstWord, lexpc>>
pngVars == <<raster, clipCanvas, encoded>>
themeVars == <<themeFlags, themePc, colorIn, colorOut>>
resVars == <<open, disk, deferred, rasterized, runErr, called>>
auxVars == <<pngVars, themeVars, resVars>>
vars == <<vtVars, imgVars, cmdVars, lexVars, auxVars>>

----------------------------------------------------------------------------
(* Bounds of the model.                                                    *)

MaxLen == 4          \* Spec: longest input of the emulator, in runes
MaxCols == 2         \* Spec, SpecText: largest maxColumns
MaxRun == 12         \* SpecRun, SpecWrap: longest run of plain characters
MaxRunCols == 5      \* SpecRun, SpecWrap: largest column width
MaxText == 5         \* SpecText: longest text of characters and line breaks
MaxSource == 2       \* SpecCmd: longest captured output or raw-read file
MaxFlagColumns == 1  \* SpecCmd: largest value of the columns flag
MaxTermCols == 2     \* SpecCmd, SpecWrap: widest terminal
MaxPrompt == 5       \* SpecPrompt: longest content with a prompt line, in runes
MaxCsi == 2          \* SpecCsi: most commands after the text already on the screen
MaxRowOps == 3       \* SpecRows: most operations on the rows
IntBits == 10        \* the width of an int of the model, in bits (Go's is 64)
MaxImage == 3        \* SpecClip: the width and the height of the image, in pixels
MaxCmdLen == 4       \* SpecLex: longest command string, in bytes

----------------------------------------------------------------------------
(* Runes.  A bunt.ColoredRune is a symbol with its packed settings.        *)

ESC == "ESC"         \* '\033'
NL == "NL"           \* '\n'
CR == "CR"           \* '\r'
BS == "BS"           \* '\b'
SP == " "

Digits == {"0", "1", "2", "3", "4", "5", "6", "7", "8", "9"}

DigitValue(ch) ==
    CASE ch = "0" -> 0 [] ch = "1" -> 1 [] ch = "2" -> 2 [] ch = "3" -> 3
      [] ch = "4" -> 4 [] ch = "5" -> 5 [] ch = "6" -> 6 [] ch = "7" -> 7
      [] ch = "8" -> 8 [] ch = "9" -> 9

\* The packed settings of a rune: no settings (the uint64 0), or the
\* foreground bit with the colour's red, green and blue.
NoSettings == <<>>
Foreground(r, g, b) == <<r, g, b>>

ColoredRune(sym, settings) == [Symbol |-> sym, Settings |-> settings]

\* bunt.ColoredRune{Symbol: ' '}: the blank the emulator pads and erases with
BlankRune == ColoredRune(SP, NoSettings)

\* The int: IntBits bits in two's complement; sums and differences wrap.
MaxInt == 2 ^ (IntBits - 1) - 1
MinInt == -(2 ^ (IntBits - 1))

WrapInt(n) == ((n - MinInt) % (2 ^ IntBits)) + MinInt

\* strconv.Atoi of a buffer of decimal digits; the error is dropped by the
\* caller, and the value strconv returns with a range error is the largest int
RECURSIVE Atoi(_)
Atoi(ds) ==
    IF ds = <<>> THEN 0
    ELSE LET n == 10 * Atoi(SubSeq(ds, 1, Len(ds) - 1)) + DigitValue(ds[Len(ds)])
         IN IF n > MaxInt THEN MaxInt ELSE n

----------------------------------------------------------------------------
(* package ansi: the virtual terminal.                                     *)

DefaultMaxColumns == 80

NewVirtualTerminal(maxColumns) ==
    [lines      |-> << <<>> >>,
     cursorX    |-> 0,
     cursorY    |-> 0,
     maxColumns |-> IF maxColumns <= 0 THEN DefaultMaxColumns ELSE maxColumns]

\* appends empty rows until the row of index line exists
ensureLineExists(v, line) ==
    IF Len(v.lines) <= line
    THEN [v EXCEPT !.lines = v.lines \o [k \in 1..(line + 1 - Len(v.lines)) |-> <<>>]]
    ELSE v

\* clearToEndOfLine as it would be if the cell under the cursor were kept
clearToEndOfLine_KeepsCursorCell(v) ==
    IF v.cursorY < Len(v.lines) /\ v.cursorX < Len(v.lines[v.cursorY + 1])
    THEN [v EXCEPT !.lines[v.cursorY + 1] = SubSeq(@, 1, v.cursorX + 1)]
    ELSE v

clearToEndOfLine(v) ==
    IF v.cursorY < Len(v.lines) /\ v.cursorX < Len(v.lines[v.cursorY + 1])
    THEN [v EXCEPT !.lines[v.cursorY + 1] = SubSeq(@, 1, v.cursorX)]
    ELSE v

clearToBeginningOfLine(v) ==
    IF v.cursorY < Len(v.lines)
    THEN [v EXCEPT !.lines[v.cursorY + 1] =
            [k \in 1..Len(@) |-> IF k - 1 <= v.cursorX THEN BlankRune ELSE @[k]]]
    ELSE v

clearLine(v) ==
    IF v.cursorY < Len(v.lines)
    THEN [v EXCEPT !.lines[v.cursorY + 1] = <<>>]
    ELSE v

\* clearToEndOfScreen as it would be if the rows below the cursor were kept
clearToEndOfScreen_KeepsRows(v) == clearToEndOfLine(v)

clearToEndOfScreen(v) ==
    LET w == clearToEndOfLine(v) IN
    IF w.cursorY + 1 < Len(w.lines)
    THEN [w EXCEPT !.lines = SubSeq(@, 1, w.cursorY + 1)]
    ELSE w

clearToBeginningOfScreen(v) ==
    clearToBeginningOfLine(
        [v EXCEPT !.lines = [k \in 1..Len(@) |-> IF k - 1 < v.cursorY THEN <<>> ELSE @[k]]])

clearScreen(v) ==
    [v EXCEPT !.lines = << <<>> >>, !.cursorX = 0, !.cursorY = 0]

\* the parameter scan as it would be if an empty parameter were left out
RECURSIVE scanParams_SkipsEmpty(_, _, _, _)
scanParams_SkipsEmpty(str, k, params, paramBuf) ==
    IF k >= Len(str) THEN [i |-> k, params |-> params]
    ELSE LET ch == str[k + 1].Symbol IN
         IF ch \in Digits
         THEN scanParams_SkipsEmpty(str, k + 1, params, Append(paramBuf, ch))
         ELSE IF ch = ";"
         THEN scanParams_SkipsEmpty(str, k + 1,
                         IF Len(paramBuf) > 0 THEN Append(params, Atoi(paramBuf))
                                              ELSE params,
                         <<>>)
         ELSE [i |-> k,
               params |-> IF Len(paramBuf) > 0 THEN Append(params, Atoi(paramBuf))
                                               ELSE params]

\* the parameter scan of handleCSI: the loop from index i on.  It ends at the
\* command letter (a pending number is appended) or at the end of the input.
RECURSIVE scanParams(_, _, _, _)
scanParams(str, k, params, paramBuf) ==
    IF k >= Len(str) THEN [i |-> k, params |-> params]
    ELSE LET ch == str[k + 1].Symbol IN
         IF ch \in Digits
         THEN scanParams(str, k + 1, params, Append(paramBuf, ch))
         ELSE IF ch = ";"
         THEN scanParams(str, k + 1,
                         Append(params, IF Len(paramBuf) > 0 THEN Atoi(paramBuf) ELSE 0),
                         <<>>)
         ELSE [i |-> k,
               params |-> IF Len(paramBuf) > 0 THEN Append(params, Atoi(paramBuf))
                                               ELSE params]

\* n := 1; if len(params) > 0 && params[0] > 0 { n = params[0] }
countParam(params) ==
    IF Len(params) > 0 /\ params[1] > 0 THEN params[1] ELSE 1

Max0(n) == IF n < 0 THEN 0 ELSE n

\* cursorPosition as it would be if the parameters moved the cursor from
\* where it is
cursorPosition_Relative(v, params) ==
    LET row == IF Len(params) > 0 THEN params[1] ELSE 1
        col == IF Len(params) > 1 THEN params[2] ELSE 1
    IN ensureLineExists(
           [v EXCEPT !.cursorY = Max0(v.cursorY + row - 1),
                     !.cursorX = Max0(v.cursorX + col - 1)],
           Max0(v.cursorY + row - 1))

\* case 'H', 'f': the cursor goes to row params[0], column params[1], both
\* counted from 1 and 1 when not given
cursorPosition(v, params) ==
    LET row == IF Len(params) > 0 THEN params[1] ELSE 1
        col == IF Len(params) > 1 THEN params[2] ELSE 1
    IN ensureLineExists(
           [v EXCEPT !.cursorY = Max0(row - 1), !.cursorX = Max0(col - 1)],
           Max0(row - 1))

\* the switch of handleCSI on the command letter; consumed = 0 means not handled
csiCommand(v, command, params, consumed) ==
    LET done(w) == [consumed |-> consumed, handled |-> TRUE, vt |-> w]
        n == countParam(params)
        first == IF Len(params) > 0 THEN params[1] ELSE 1
        second == IF Len(params) > 1 THEN params[2] ELSE 1
        mode == IF Len(params) > 0 THEN params[1] ELSE 0
    IN CASE command = "A" -> done([v EXCEPT !.cursorY = Max0(WrapInt(v.cursorY - n))])
         [] command = "B" ->
                done(ensureLineExists([v EXCEPT !.cursorY = WrapInt(v.cursorY + n)],
                                      WrapInt(v.cursorY + n)))
         [] command = "C" -> done([v EXCEPT !.cursorX = WrapInt(v.cursorX + n)])
         [] command = "D" -> done([v EXCEPT !.cursorX = Max0(WrapInt(v.cursorX - n))])
         [] command = "G" -> done([v EXCEPT !.cursorX = Max0(first - 1)])
         [] command \in {"H", "f"} -> done(cursorPosition(v, params))
         [] command = "J" ->
                done(CASE mode = 0 -> clearToEndOfScreen(v)
                       [] mode = 1 -> clearToBeginningOfScreen(v)
                       [] mode \in {2, 3} -> clearScreen(v)
                       [] OTHER -> v)
         [] command = "K" ->
                done(CASE mode = 0 -> clearToEndOfLine(v)
                       [] mode = 1 -> clearToBeginningOfLine(v)
                       [] mode = 2 -> clearLine(v)
                       [] OTHER -> v)
         [] command \in {"s", "u"} -> done(v)
         [] OTHER -> [consumed |-> 0, handled |-> FALSE, vt |-> v]

\* Index and slice expressions with a negative cursor panic (index out of
\* range, slice bounds out of range).  The erase operations that do so:
\* clearToEndOfLine reads lines[cursorY] and slices it at cursorX
clearToEndOfLinePanics(v) ==
    v.cursorY < Len(v.lines) /\ (v.cursorY < 0 \/ v.cursorX < 0)

\* clearToBeginningOfLine reads lines[cursorY] once 0 <= cursorX holds
clearToBeginningOfLinePanics(v) == v.cursorY < 0 /\ 0 <= v.cursorX

\* clearLine assigns lines[cursorY]
clearLinePanics(v) == v.cursorY < 0

\* whether the command of a CSI sequence panics in the terminal v
csiPanics(v, command, params) ==
    LET mode == IF Len(params) > 0 THEN params[1] ELSE 0
    IN CASE command = "J" /\ mode = 0 -> clearToEndOfLinePanics(v)
         [] command = "J" /\ mode = 1 -> clearToBeginningOfLinePanics(v)
         [] command = "K" /\ mode = 0 -> clearToEndOfLinePanics(v)
         [] command = "K" /\ mode = 1 -> clearToBeginningOfLinePanics(v)
         [] command = "K" /\ mode = 2 -> clearLinePanics(v)
         [] OTHER -> FALSE

\* whether handleCSI panics on the sequence that starts at index start
handleCSIPanics(v, str, start) ==
    /\ start + 2 < Len(str)
    /\ LET s == scanParams(str, start + 2, <<>>, <<>>) IN
       s.i < Len(str) /\ csiPanics(v, str[s.i + 1].Symbol, s.params)

\* handleCSI as it would be if an ESC '[' that no command letter follows
\* were reported as handled with nothing consumed
handleCSI_NoProgress(v, str, start) ==
    IF start + 2 >= Len(str) THEN [consumed |-> 0, handled |-> TRUE, vt |-> v]
    ELSE LET s == scanParams(str, start + 2, <<>>, <<>>) IN
         IF s.i >= Len(str) THEN [consumed |-> 0, handled |-> TRUE, vt |-> v]
         ELSE csiCommand(v, str[s.i + 1].Symbol, s.params, s.i - start + 1)

\* handleCSI as it would be if a sequence with an unknown command letter
\* were consumed whole
handleCSI_SwallowsUnknown(v, str, start) ==
    IF start + 2 >= Len(str) THEN [consumed |-> 0, handled |-> FALSE, vt |-> v]
    ELSE LET s == scanParams(str, start + 2, <<>>, <<>>) IN
         IF s.i >= Len(str) THEN [consumed |-> 0, handled |-> FALSE, vt |-> v]
         ELSE LET r == csiCommand(v, str[s.i + 1].Symbol, s.params, s.i - start + 1)
              IN IF r.handled THEN r
                 ELSE [consumed |-> s.i - start + 1, handled |-> TRUE, vt |-> v]

handleCSI(v, str, start) ==
    IF start + 2 >= Len(str) THEN [consumed |-> 0, handled |-> FALSE, vt |-> v]
    ELSE LET s == scanParams(str, start + 2, <<>>, <<>>) IN
         IF s.i >= Len(str) THEN [consumed |-> 0, handled |-> FALSE, vt |-> v]
         ELSE csiCommand(v, str[s.i + 1].Symbol, s.params, s.i - start + 1)

\* toBuntString as it would be if a line break followed the last row too
toBuntString_BreakAfterLast(v) ==
    LET RECURSIVE flat(_)
        flat(k) ==
            IF k > Len(v.lines) THEN <<>>
            ELSE LET line == v.lines[k]
                     settings == IF Len(line) > 0 THEN line[Len(line)].Settings
                                                   ELSE NoSettings
                 IN line \o <<ColoredRune(NL, settings)>> \o flat(k + 1)
    IN flat(1)

toBuntString(v) ==
    LET RECURSIVE flat(_)
        flat(k) ==
            IF k > Len(v.lines) THEN <<>>
            ELSE LET line == v.lines[k]
                     settings == IF Len(line) > 0 THEN line[Len(line)].Settings
                                                   ELSE NoSettings
                 IN line \o (IF k - 1 < Len(v.lines) - 1
                             THEN <<ColoredRune(NL, settings)>> ELSE <<>>)
                         \o flat(k + 1)
    IN flat(1)

----------------------------------------------------------------------------
(* One iteration of the main loop of Parse, by the branch it takes.  Each   *)
(* yields the next index, the terminal and whether the iteration panicked. *)

Iter(k, v, panic) == [i |-> k, vt |-> v, panic |-> panic]

\* the ESC branch as it would be if an ESC that starts no CSI sequence were
\* put into the row of the cursor
escapeBranch_KeepsEscape(str, k, v) ==
    IF k + 1 < Len(str) /\ str[k + 2].Symbol = "["
    THEN IF handleCSIPanics(v, str, k) THEN Iter(k, v, TRUE)
         ELSE LET r == handleCSI(v, str, k) IN
              IF r.handled THEN Iter(k + r.consumed, r.vt, FALSE)
                           ELSE Iter(k + 1, r.vt, FALSE)
    ELSE IF 0 <= v.cursorY /\ v.cursorY < Len(v.lines)
         THEN Iter(k + 1, [v EXCEPT !.lines[v.cursorY + 1] = Append(@, str[k + 1])], FALSE)
         ELSE Iter(k + 1, v, FALSE)

escapeBranch(str, k, v) ==
    IF k + 1 < Len(str) /\ str[k + 2].Symbol = "["
    THEN IF handleCSIPanics(v, str, k) THEN Iter(k, v, TRUE)
         ELSE LET r == handleCSI(v, str, k) IN
              IF r.handled THEN Iter(k + r.consumed, r.vt, FALSE)
                           ELSE Iter(k + 1, r.vt, FALSE)
    ELSE Iter(k + 1, v, FALSE)

carriageReturnBranch(k, v) == Iter(k + 1, [v EXCEPT !.cursorX = 0], FALSE)

newlineBranch(k, v) ==
    Iter(k + 1, ensureLineExists([v EXCEPT !.cursorY = v.cursorY + 1, !.cursorX = 0],
                                 v.cursorY + 1), FALSE)

\* the backspace as it would be if it also blanked the cell it moves onto
backspaceBranch_Erases(k, v) ==
    Iter(k + 1,
         IF v.cursorX > 0
         THEN IF /\ 0 <= v.cursorY /\ v.cursorY < Len(v.lines)
                 /\ v.cursorX <= Len(v.lines[v.cursorY + 1])
              THEN [v EXCEPT !.cursorX = v.cursorX - 1,
                             !.lines[v.cursorY + 1][v.cursorX] = BlankRune]
              ELSE [v EXCEPT !.cursorX = v.cursorX - 1]
         ELSE v,
         FALSE)

backspaceBranch(k, v) ==
    Iter(k + 1, IF v.cursorX > 0 THEN [v EXCEPT !.cursorX = v.cursorX - 1] ELSE v, FALSE)

\* pads row cursorY with blanks while len(row) <= cursorX
padLine(v) ==
    LET row == v.lines[v.cursorY + 1] IN
    IF Len(row) <= v.cursorX
    THEN [v EXCEPT !.lines[v.cursorY + 1] =
            row \o [k \in 1..(v.cursorX + 1 - Len(row)) |-> BlankRune]]
    ELSE v

\* if cursorX >= maxColumns: next row, column 0
wrapLine(v) ==
    IF v.cursorX >= v.maxColumns
    THEN ensureLineExists([v EXCEPT !.cursorY = v.cursorY + 1, !.cursorX = 0],
                          v.cursorY + 1)
    ELSE v

\* the regular character: ensure the row, pad it, wrap, then store at
\* lines[cursorY][cursorX], which panics when that index is not in the row
characterBranch(cr, k, v) ==
    IF v.cursorY < 0 THEN Iter(k, v, TRUE)
    ELSE
    LET w == wrapLine(padLine(ensureLineExists(v, v.cursorY))) IN
    IF 0 <= w.cursorX /\ w.cursorX < Len(w.lines[w.cursorY + 1])
    THEN Iter(k + 1,
              [w EXCEPT !.lines[w.cursorY + 1][w.cursorX + 1] = cr,
                        !.cursorX = w.cursorX + 1],
              FALSE)
    ELSE Iter(k, w, TRUE)

Controls == {ESC, CR, NL, BS}

parseIteration(str, k, v) ==
    LET cr == str[k + 1] IN
    CASE cr.Symbol = ESC -> escapeBranch(str, k, v)
      [] cr.Symbol = CR -> carriageReturnBranch(k, v)
      [] cr.Symbol = NL -> newlineBranch(k, v)
      [] cr.Symbol = BS -> backspaceBranch(k, v)
      [] OTHER -> characterBranch(cr, k, v)


----------------------------------------------------------------------------
(* Byte streams.  A stream of bytes is modelled by the runes bunt decodes  *)
(* it to, each with the settings of the SGR codes before it; BadSGR stands *)
(* for an escape sequence that bunt.ParseStream rejects.  bunt's           *)
(* String.String writes the runes back with their SGR codes.               *)

BadSGR == "BadSGR"

ParseStream(stream) ==
    IF \E k \in 1..Len(stream) : stream[k].Symbol = BadSGR
    THEN [ok |-> FALSE, str |-> <<>>]
    ELSE [ok |-> TRUE, str |-> stream]

String(str) == str

\* the loop of Parse from index k on, run to its end
RECURSIVE parseLoop(_, _, _)
parseLoop(str, k, v) ==
    IF k >= Len(str) THEN [status |-> "ok", result |-> toBuntString(v)]
    ELSE LET r == parseIteration(str, k, v) IN
         IF r.panic THEN [status |-> "panic", result |-> <<>>]
                    ELSE parseLoop(str, r.i, r.vt)

\* VirtualTerminal.Parse as a whole: "error" when the stream does not decode
Parse(v, data) ==
    LET p == ParseStream(data) IN
    IF ~p.ok THEN [status |-> "error", result |-> <<>>]
             ELSE parseLoop(p.str, 0, v)

----------------------------------------------------------------------------
(* package img: the Scaffold.                                              *)

TAB == "TAB"

\* the runes of promptIndicators, by code point where not ASCII
HeavyArrow == "U+279C"
HeavyAngle == "U+276F"
Lambda == "U+03BB"
Arrow == "U+2192"
promptIndicators == <<HeavyArrow, HeavyAngle, "$", "#", Lambda, Arrow, "%">>

\* len(string(r)): the length of the UTF-8 encoding of a rune
runeLen(sym) ==
    CASE sym \in {HeavyArrow, HeavyAngle, Arrow} -> 3
      [] sym = Lambda -> 2
      [] OTHER -> 1

\* the UTF-8 bytes of a rune: an ASCII rune is its own byte, the others are
\* their bytes in hexadecimal
runeBytes(sym) ==
    CASE sym = HeavyArrow -> <<"E2", "9E", "9C">>
      [] sym = HeavyAngle -> <<"E2", "9D", "AF">>
      [] sym = Arrow -> <<"E2", "86", "92">>
      [] sym = Lambda -> <<"CE", "BB">>
      [] OTHER -> <<sym>>

\* the string a strings.Builder holds after WriteRune of each symbol
RECURSIVE stringOf(_)
stringOf(str) ==
    IF str = <<>> THEN <<>>
    ELSE runeBytes(Head(str).Symbol) \o stringOf(Tail(str))

HasPrefix(text, indicator) ==
    LET b == runeBytes(indicator) IN
    Len(text) >= Len(b) /\ SubSeq(text, 1, Len(b)) = b

\* strings.TrimSpace(text) != "": some byte is not white space
NotBlank(text) == \E k \in 1..Len(text) : text[k] \notin {SP, TAB, CR, NL}

\* the index of the first line break from start on, or len(str)
RECURSIVE lineEnd(_, _)
lineEnd(str, start) ==
    IF start >= Len(str) \/ str[start + 1].Symbol = NL THEN start
    ELSE lineEnd(str, start + 1)

getLineAt(str, start) == stringOf(SubSeq(str, start + 1, lineEnd(str, start)))

getFirstLine(str) == getLineAt(str, 0)

hasIndicator(text) ==
    \E k \in 1..Len(promptIndicators) : HasPrefix(text, promptIndicators[k])

\* the first indicator of the list that the text starts with
firstIndicator(text) ==
    LET k == CHOOSE k \in 1..Len(promptIndicators) :
                 /\ HasPrefix(text, promptIndicators[k])
                 /\ \A j \in 1..(k - 1) : ~HasPrefix(text, promptIndicators[j])
    IN promptIndicators[k]

hexDigits == <<"0", "1", "2", "3", "4", "5", "6", "7", "8", "9",
               "a", "b", "c", "d", "e", "f">>
upperHexDigits == <<"0", "1", "2", "3", "4", "5", "6", "7", "8", "9",
                    "A", "B", "C", "D", "E", "F">>

IsHex(c) == \E k \in 1..16 : c = hexDigits[k] \/ c = upperHexDigits[k]

HexValue(c) == (CHOOSE k \in 1..16 : c = hexDigits[k] \/ c = upperHexDigits[k]) - 1

\* theme.ParseColor of a string of characters: the colour <<r, g, b>> of
\* "#RRGGBB" or "#RRGGBBAA" (the '#' is optional), or nil (<<>>) with an error
ParseColor(hex) ==
    IF Len(hex) = 0 THEN <<>>
    ELSE LET h == IF hex[1] = "#" THEN Tail(hex) ELSE hex IN
         IF Len(h) \in {6, 8} /\ \A k \in 1..Len(h) : IsHex(h[k])
         THEN <<16 * HexValue(h[1]) + HexValue(h[2]),
                16 * HexValue(h[3]) + HexValue(h[4]),
                16 * HexValue(h[5]) + HexValue(h[6])>>
         ELSE <<>>

FallbackGreen == Foreground(166, 227, 161)
PromptAccent == Foreground(203, 166, 247)

RECURSIVE skipSpaces(_, _)
skipSpaces(text, k) ==
    IF k < Len(text) /\ text[k + 1] = SP THEN skipSpaces(text, k + 1) ELSE k

RECURSIVE wordEnd(_, _)
wordEnd(text, k) ==
    IF k < Len(text) /\ text[k + 1] # SP /\ text[k + 1] # TAB
    THEN wordEnd(text, k + 1) ELSE k

\* the loop that turns the byte range of the command into a rune index
RECURSIVE commandEndRune(_, _, _, _)
commandEndRune(line, b, commandEnd, r) ==
    IF b < commandEnd /\ r < Len(line)
    THEN commandEndRune(line, b + runeLen(line[r + 1].Symbol), commandEnd, r + 1)
    ELSE r

highlightCommandLine(s, line) ==
    LET text == stringOf(line) IN
    IF ~hasIndicator(text) THEN line
    ELSE
    LET indicator == firstIndicator(text)
        promptCharCount == 1
        whitespaceStart == Len(runeBytes(indicator))
        promptEnd == skipSpaces(text, whitespaceStart)
        commandStart == promptEnd
        commandEnd == wordEnd(text, commandStart)
        greenColor == IF ParseColor(s.currentTheme.Green) = <<>>
                      THEN FallbackGreen ELSE ParseColor(s.currentTheme.Green)
        nPrompt == IF promptCharCount < Len(line) THEN promptCharCount ELSE Len(line)
        spaces == promptEnd - whitespaceStart
        commandStartRune ==
            IF nPrompt + spaces < Len(line) THEN nPrompt + spaces ELSE Len(line)
        endRune == commandEndRune(line, commandStart, commandEnd, commandStartRune)
    IN [k \in 1..Len(line) |->
          IF k <= nPrompt THEN ColoredRune(line[k].Symbol, PromptAccent)
          ELSE IF k <= commandStartRune THEN line[k]
          ELSE IF k <= endRune THEN ColoredRune(line[k].Symbol, greenColor)
          ELSE line[k]]

\* enhanceRawContent as it would be if the blank line were inserted whenever
\* content follows the first line
enhanceRawContent_AlwaysSpacing(s, str) ==
    IF Len(str) = 0 \/ s.noPromptDetect \/ ~hasIndicator(getFirstLine(str)) THEN str
    ELSE
    LET firstLineEnd == IF lineEnd(str, 0) < Len(str) THEN lineEnd(str, 0) ELSE 0 IN
    IF firstLineEnd = 0 THEN str
    ELSE
    LET highlightedCommand == highlightCommandLine(s, SubSeq(str, 1, firstLineEnd))
        hasOutputAfter == firstLineEnd + 1 < Len(str)
    IN highlightedCommand
         \o <<ColoredRune(NL, NoSettings)>>
         \o (IF hasOutputAfter THEN <<ColoredRune(NL, NoSettings)>> ELSE <<>>)
         \o (IF hasOutputAfter THEN SubSeq(str, firstLineEnd + 2, Len(str)) ELSE <<>>)

\* enhanceRawContent as it would be if the rest of the content were added
\* from the line break of the first line on, the break not skipped
enhanceRawContent_KeepsBreak(s, str) ==
    IF Len(str) = 0 \/ s.noPromptDetect \/ ~hasIndicator(getFirstLine(str)) THEN str
    ELSE
    LET firstLineEnd == IF lineEnd(str, 0) < Len(str) THEN lineEnd(str, 0) ELSE 0 IN
    IF firstLineEnd = 0 THEN str
    ELSE
    LET highlightedCommand == highlightCommandLine(s, SubSeq(str, 1, firstLineEnd))
        hasOutputAfter == firstLineEnd + 1 < Len(str)
        nextLine == getLineAt(str, firstLineEnd + 1)
        spacing == hasOutputAfter /\ ~hasIndicator(nextLine) /\ NotBlank(nextLine)
    IN highlightedCommand
         \o <<ColoredRune(NL, NoSettings)>>
         \o (IF spacing THEN <<ColoredRune(NL, NoSettings)>> ELSE <<>>)
         \o (IF hasOutputAfter THEN SubSeq(str, firstLineEnd + 1, Len(str)) ELSE <<>>)

enhanceRawContent(s, str) ==
    IF Len(str) = 0 \/ s.noPromptDetect \/ ~hasIndicator(getFirstLine(str)) THEN str
    ELSE
    LET firstLineEnd == IF lineEnd(str, 0) < Len(str) THEN lineEnd(str, 0) ELSE 0 IN
    IF firstLineEnd = 0 THEN str
    ELSE
    LET highlightedCommand == highlightCommandLine(s, SubSeq(str, 1, firstLineEnd))
        hasOutputAfter == firstLineEnd + 1 < Len(str)
        nextLine == getLineAt(str, firstLineEnd + 1)
        spacing == hasOutputAfter /\ ~hasIndicator(nextLine) /\ NotBlank(nextLine)
    IN highlightedCommand
         \o <<ColoredRune(NL, NoSettings)>>
         \o (IF spacing THEN <<ColoredRune(NL, NoSettings)>> ELSE <<>>)
         \o (IF hasOutputAfter THEN SubSeq(str, firstLineEnd + 2, Len(str)) ELSE <<>>)

GetFixedColumns(s, terminal) == IF s.columns # 0 THEN s.columns ELSE terminal

GetColumns(s) == s.columns

SetColumns(s, columns) == [s EXCEPT !.columns = columns]

\* the wrap loop of AddContent over enhanced[k..], with the counter so far
RECURSIVE wrapContent(_, _, _, _)
wrapContent(enhanced, k, counter, fixed) ==
    IF k > Len(enhanced) THEN <<>>
    ELSE LET cr == enhanced[k]
             c1 == IF cr.Symbol = NL THEN 0 ELSE counter + 1
         IN IF c1 > fixed
            THEN <<ColoredRune(NL, cr.Settings), cr>>
                     \o wrapContent(enhanced, k + 1, 0, fixed)
            ELSE <<cr>> \o wrapContent(enhanced, k + 1, c1, fixed)

\* Scaffold.AddContent: the scaffold afterwards, and whether it failed
AddContent(s, stream, terminal) ==
    LET p == ParseStream(stream) IN
    IF ~p.ok THEN [err |-> TRUE, s |-> s]
    ELSE [err |-> FALSE,
          s |-> [s EXCEPT !.content =
                    @ \o wrapContent(enhanceRawContent(s, p.str), 1, 0,
                                     GetFixedColumns(s, terminal))]]

WriteRaw(s) == String(s.content)

----------------------------------------------------------------------------
(* package img: WritePNG.  An image is its bounds, from (0, 0), and the    *)
(* set of its pixels that are not fully transparent.  A rectangle holds    *)
(* the points with Min <= p < Max, as image.Rectangle does.                *)

Rectangle(x0, y0, x1, y1) == [MinX |-> x0, MinY |-> y0, MaxX |-> x1, MaxY |-> y1]

ZR == Rectangle(0, 0, 0, 0)

\* image.Rect: the rectangle of two corners, put in order
Rect(x0, y0, x1, y1) ==
    Rectangle(IF x0 > x1 THEN x1 ELSE x0, IF y0 > y1 THEN y1 ELSE y0,
              IF x0 > x1 THEN x0 ELSE x1, IF y0 > y1 THEN y0 ELSE y1)

Empty(r) == r.MinX >= r.MaxX \/ r.MinY >= r.MaxY

\* Rectangle.Intersect
Intersect(r, s) ==
    LET t == Rectangle(IF r.MinX < s.MinX THEN s.MinX ELSE r.MinX,
                       IF r.MinY < s.MinY THEN s.MinY ELSE r.MinY,
                       IF r.MaxX > s.MaxX THEN s.MaxX ELSE r.MaxX,
                       IF r.MaxY > s.MaxY THEN s.MaxY ELSE r.MaxY)
    IN IF Empty(t) THEN ZR ELSE t

Bounds(img) == Rectangle(0, 0, img.width, img.height)

\* RGBA.SubImage: the bounds of the part of the image inside r
SubImage(img, r) == Intersect(r, Bounds(img))

SetMin(S, start) == IF S = {} THEN start ELSE CHOOSE m \in S : \A n \in S : m <= n
SetMax(S, start) == IF S = {} THEN start ELSE CHOOSE m \in S : \A n \in S : m >= n

\* the scan of WritePNG: minX and minY start at math.MaxInt, maxX and maxY
\* at 0, and every pixel that is not transparent moves them
clipRect(img) ==
    LET xs == {p[1] : p \in img.opaque}
        ys == {p[2] : p \in img.opaque}
    IN Rect(SetMin(xs, MaxInt), SetMin(ys, MaxInt), SetMax(xs, 0), SetMax(ys, 0))

\* Scaffold.WritePNG on the image that Scaffold.image returned: the bounds of
\* the image handed to png.Encode, which fails on an image without pixels
WritePNG(clip, img) ==
    LET out == IF clip THEN SubImage(img, clipRect(img)) ELSE Bounds(img)
    IN [bounds |-> out, err |-> Empty(out)]

----------------------------------------------------------------------------
(* package highlight: the Lexer.  The input is a Go string, a sequence of  *)
(* bytes 0..255; Tokenize reads it byte by byte.                           *)

\* shellKeywords, each word by its bytes, in the order of the source
shellKeywords ==
    {
     <<105, 102>>,    \* if
     <<116, 104, 101, 110>>,    \* then
     <<101, 108, 115, 101>>,    \* else
     <<101, 108, 105, 102>>,    \* elif
     <<102, 105>>,    \* fi
     <<99, 97, 115, 101>>,    \* case
     <<101, 115, 97, 99>>,    \* esac
     <<102, 111, 114>>,    \* for
     <<119, 104, 105, 108, 101>>,    \* while
     <<117, 110, 116, 105, 108>>,    \* until
     <<100, 111>>,    \* do
     <<100, 111, 110, 101>>,    \* done
     <<105, 110>>,    \* in
     <<102, 117, 110, 99, 116, 105, 111, 110>>,    \* function
     <<115, 101, 108, 101, 99, 116>>,    \* select
     <<116, 105, 109, 101>>,    \* time
     <<99, 111, 112, 114, 111, 99>>,    \* coproc
     <<114, 101, 116, 117, 114, 110>>,    \* return
     <<98, 114, 101, 97, 107>>,    \* break
     <<99, 111, 110, 116, 105, 110, 117, 101>>,    \* continue
     <<101, 120, 112, 111, 114, 116>>,    \* export
     <<108, 111, 99, 97, 108>>,    \* local
     <<114, 101, 97, 100, 111, 110, 108, 121>>,    \* readonly
     <<100, 101, 99, 108, 97, 114, 101>>,    \* declare
     <<116, 121, 112, 101, 115, 101, 116>>,    \* typeset
     <<97, 108, 105, 97, 115>>,    \* alias
     <<117, 110, 97, 108, 105, 97, 115>>,    \* unalias
     <<115, 101, 116>>,    \* set
     <<117, 110, 115, 101, 116>>,    \* unset
     <<115, 104, 105, 102, 116>>,    \* shift
     <<115, 111, 117, 114, 99, 101>>,    \* source
     <<101, 120, 101, 99>>,    \* exec
     <<101, 118, 97, 108>>,    \* eval
     <<116, 101, 115, 116>>,    \* test
     <<99, 100>>,    \* cd
     <<101, 99, 104, 111>>,    \* echo
     <<112, 114, 105, 110, 116, 102>>,    \* printf
     <<114, 101, 97, 100>>,    \* read
     <<101, 120, 105, 116>>,    \* exit
     <<116, 114, 117, 101>>,    \* true
     <<102, 97, 108, 115, 101>>    \* false
    }

\* unicode.IsSpace, IsLetter and IsDigit of rune(ch) for a byte ch: the
\* Latin-1 code point of that number
spaceBytes == {9, 10, 11, 12, 13, 32, 133, 160}
letterBytes ==
    (65..90) \cup (97..122) \cup {170, 181, 186}
        \cup (192..214) \cup (216..246) \cup (248..255)
digitBytes == 48..57
IsSpace(ch) == ch \in spaceBytes
IsLetter(ch) == ch \in letterBytes
IsDigit(ch) == ch \in digitBytes

\* string(ch) of a byte: the UTF-8 encoding of the code point ch
byteToString(ch) ==
    IF ch < 128 THEN <<ch>> ELSE <<192 + (ch \div 64), 128 + (ch % 64)>>

\* the bytes of the three character lists of the lexer: the operator
\* characters, the characters that end a flag, and those that end a word
operatorBytes == {124, 38, 59, 60, 62, 40, 41, 91, 93, 123, 125, 33, 42}
flagStopBytes == {124, 38, 59, 60, 62, 40, 41, 91, 93, 123, 125, 34, 39, 96, 36}
wordStopBytes == flagStopBytes \cup {35}

NewLexer(input) == [input |-> input, pos |-> 0, tokens |-> <<>>]

Token(type, value) == [Type |-> type, Value |-> value]

\* l.input[from:to]
slice(lx, from, to) == SubSeq(lx.input, from + 1, to)

addToken(lx, type, value) == [lx EXCEPT !.tokens = Append(@, Token(type, value))]

\* advances k while it is inside the input and the byte there is not in stop
RECURSIVE scanUntil(_, _, _)
scanUntil(input, k, stop) ==
    IF k < Len(input) /\ input[k + 1] \notin stop THEN scanUntil(input, k + 1, stop)
                                                     ELSE k

tokenizeWord(lx) ==
    LET end == scanUntil(lx.input, lx.pos, spaceBytes \cup wordStopBytes)
    IN addToken([lx EXCEPT !.pos = end], "TokenDefault", slice(lx, lx.pos, end))

\* the loop of tokenizeString from position k on
RECURSIVE stringEnd(_, _, _)
stringEnd(input, k, quote) ==
    IF k >= Len(input) THEN k
    ELSE IF input[k + 1] = quote THEN k + 1
    ELSE IF input[k + 1] = 92 /\ k + 1 < Len(input) THEN stringEnd(input, k + 2, quote)
    ELSE stringEnd(input, k + 1, quote)

tokenizeString(lx, quote) ==
    LET end == stringEnd(lx.input, lx.pos + 1, quote)
    IN addToken([lx EXCEPT !.pos = end], "TokenString", slice(lx, lx.pos, end))

tokenizeVariable(lx) ==
    LET p == lx.pos + 1
        end == IF p < Len(lx.input) /\ lx.input[p + 1] = 123
               THEN LET q == scanUntil(lx.input, p + 1, {125})
                    IN IF q < Len(lx.input) THEN q + 1 ELSE q
               ELSE scanUntil(lx.input, p,
                              (0..255) \ (letterBytes \cup digitBytes \cup {95}))
    IN addToken([lx EXCEPT !.pos = end], "TokenVariable", slice(lx, lx.pos, end))

tokenizeFlag(lx) ==
    LET p == lx.pos + 1
        q == IF p < Len(lx.input) /\ lx.input[p + 1] = 45 THEN p + 1 ELSE p
        end == scanUntil(lx.input, q, spaceBytes \cup flagStopBytes)
    IN addToken([lx EXCEPT !.pos = end], "TokenFlag", slice(lx, lx.pos, end))

tokenizeOperator(lx) ==
    LET ch == lx.input[lx.pos + 1]
        p == lx.pos + 1
        double == /\ p < Len(lx.input)
                  /\ LET next == lx.input[p + 1] IN
                        \/ ch = 124 /\ next = 124
                        \/ ch = 38 /\ next = 38
                        \/ ch = 62 /\ next = 62
                        \/ ch = 60 /\ next = 60
                        \/ ch = 62 /\ next = 38
                        \/ ch = 60 /\ next = 38
        end == IF double THEN p + 1 ELSE p
    IN addToken([lx EXCEPT !.pos = end], "TokenOperator", slice(lx, lx.pos, end))

tokenizeComment(lx) ==
    LET end == scanUntil(lx.input, lx.pos, {10})
    IN addToken([lx EXCEPT !.pos = end], "TokenComment", slice(lx, lx.pos, end))

hasBytePrefix(word, prefix) ==
    Len(word) >= Len(prefix) /\ SubSeq(word, 1, Len(prefix)) = prefix

\* the prefixes "/", "./", "../" and "~/"
isPath(word) ==
    \/ hasBytePrefix(word, <<47>>)
    \/ hasBytePrefix(word, <<46, 47>>)
    \/ hasBytePrefix(word, <<46, 46, 47>>)
    \/ hasBytePrefix(word, <<126, 47>>)

isNumber(word) == Len(word) > 0 /\ \A k \in 1..Len(word) : IsDigit(word[k])

setLastType(lx, type) == [lx EXCEPT !.tokens[Len(lx.tokens)].Type = type]

\* One iteration of the loop of Tokenize, by the branch it takes: the lexer
\* and isFirstWord afterwards.
LexState(lx, first) == [l |-> lx, isFirstWord |-> first]

whitespaceBranch(lx, first) ==
    LexState([addToken(lx, "TokenDefault", byteToString(lx.input[lx.pos + 1]))
                 EXCEPT !.pos = lx.pos + 1], first)

commentBranch(lx, first) == LexState(tokenizeComment(lx), first)

stringBranch(lx, first) == LexState(tokenizeString(lx, lx.input[lx.pos + 1]), FALSE)

variableBranch(lx, first) == LexState(tokenizeVariable(lx), FALSE)

operatorBranch(lx, first) ==
    LexState(tokenizeOperator(lx),
             IF lx.input[lx.pos + 1] \in {124, 38, 59} THEN TRUE ELSE first)

flagBranch(lx, first) == LexState(tokenizeFlag(lx), FALSE)

wordBranch(lx, first) ==
    LET w == tokenizeWord(lx)
        word == w.tokens[Len(w.tokens)].Value
    IN IF first
       THEN LexState(setLastType(w, IF word \in shellKeywords THEN "TokenKeyword"
                                                              ELSE "TokenCommand"), FALSE)
       ELSE IF word \in shellKeywords THEN LexState(setLastType(w, "TokenKeyword"), first)
       ELSE IF isPath(word) THEN LexState(setLastType(w, "TokenPath"), first)
       ELSE IF isNumber(word) THEN LexState(setLastType(w, "TokenNumber"), first)
       ELSE LexState(w, first)

\* the default branch as it would be if it emitted a token without the byte
defaultBranch_EmptyToken(lx, first) ==
    LexState([addToken(lx, "TokenDefault", <<>>) EXCEPT !.pos = lx.pos + 1], first)

defaultBranch(lx, first) ==
    LexState([addToken(lx, "TokenDefault", byteToString(lx.input[lx.pos + 1]))
                 EXCEPT !.pos = lx.pos + 1], first)

\* which branch the byte at pos takes, in the order of the tests of Tokenize
branchOf(lx) ==
    LET ch == lx.input[lx.pos + 1] IN
    CASE IsSpace(ch) -> "whitespace"
      [] ch = 35 -> "comment"
      [] ch \in {34, 39, 96} -> "string"
      [] ch = 36 -> "variable"
      [] ch \in operatorBytes -> "operator"
      [] ch = 45 /\ lx.pos + 1 < Len(lx.input) /\ ~IsSpace(lx.input[lx.pos + 2]) -> "flag"
      [] IsLetter(ch) \/ IsDigit(ch) \/ ch \in {46, 47, 95, 126} -> "word"
      [] OTHER -> "default"

tokenizeIteration(lx, first) ==
    LET b == branchOf(lx) IN
    CASE b = "whitespace" -> whitespaceBranch(lx, first)
      [] b = "comment" -> commentBranch(lx, first)
      [] b = "string" -> stringBranch(lx, first)
      [] b = "variable" -> variableBranch(lx, first)
      [] b = "operator" -> operatorBranch(lx, first)
      [] b = "flag" -> flagBranch(lx, first)
      [] b = "word" -> wordBranch(lx, first)
      [] OTHER -> defaultBranch(lx, first)

\* Tokenize as a whole: the loop run to its end
RECURSIVE tokenizeLoop(_, _)
tokenizeLoop(lx, first) ==
    IF lx.pos >= Len(lx.input) THEN lx.tokens
    ELSE LET r == tokenizeIteration(lx, first) IN tokenizeLoop(r.l, r.isFirstWord)

Tokenize(input) == tokenizeLoop(NewLexer(input), TRUE)

----------------------------------------------------------------------------
(* package img: the echoed command.  bunt.Sprintf of Lime{text} is the      *)
(* text in that colour; the colours are those of bunt, by name.            *)

Lime == Foreground(0, 255, 0)
DimGray == Foreground(105, 105, 105)
Cyan == Foreground(0, 255, 255)
Magenta == Foreground(255, 0, 255)
Yellow == Foreground(255, 255, 0)
Green == Foreground(0, 128, 0)
Blue == Foreground(0, 0, 255)
Red == Foreground(255, 0, 0)

\* the printable ASCII characters, from byte 32 on
asciiChars ==
    <<
      " ", "!", "DQUOTE", "#", "$", "%", "&", "'", "(", ")", "*", "+",
      ",", "-", ".", "/", "0", "1", "2", "3", "4", "5", "6", "7",
      "8", "9", ":", ";", "<", "=", ">", "?", "@", "A", "B", "C",
      "D", "E", "F", "G", "H", "I", "J", "K", "L", "M", "N", "O",
      "P", "Q", "R", "S", "T", "U", "V", "W", "X", "Y", "Z", "[",
      "BACKSLASH", "]", "^", "_", "BACKTICK", "a", "b", "c", "d", "e", "f", "g",
      "h", "i", "j", "k", "l", "m", "n", "o", "p", "q", "r", "s",
      "t", "u", "v", "w", "x", "y", "z", "{", "|", "}", "~"
    >>

\* the rune a byte of ASCII text decodes to
runeOfByte(b) ==
    CASE b = 10 -> NL
      [] b = 9 -> TAB
      [] b = 13 -> CR
      [] b = 8 -> BS
      [] b = 27 -> ESC
      [] b \in 32..126 -> asciiChars[b - 31]
      [] OTHER -> "?"

\* a text of ASCII bytes as runes of one colour
colored(bytes, settings) ==
    [k \in 1..Len(bytes) |-> ColoredRune(runeOfByte(bytes[k]), settings)]

\* strings.Join(args, " ")
RECURSIVE Join(_)
Join(args) ==
    IF args = <<>> THEN <<>>
    ELSE IF Len(args) = 1 THEN args[1]
    ELSE args[1] \o <<32>> \o Join(Tail(args))

colorizeToken(token) ==
    colored(token.Value,
            CASE token.Type = "TokenCommand" -> Cyan
              [] token.Type = "TokenKeyword" -> Magenta
              [] token.Type = "TokenFlag" -> Yellow
              [] token.Type = "TokenString" -> Green
              [] token.Type = "TokenVariable" -> Blue
              [] token.Type = "TokenOperator" -> Red
              [] token.Type = "TokenComment" -> DimGray
              [] token.Type = "TokenNumber" -> Magenta
              [] token.Type = "TokenPath" -> Cyan
              [] OTHER -> NoSettings)

RECURSIVE colorizeAll(_)
colorizeAll(tokens) ==
    IF tokens = <<>> THEN <<>>
    ELSE colorizeToken(Head(tokens)) \o colorizeAll(Tail(tokens))

\* the prompt is a string of runes
promptRunes(prompt, settings) ==
    [k \in 1..Len(prompt) |-> ColoredRune(prompt[k], settings)]

syntaxHighlightCommand(prompt, command) ==
    promptRunes(prompt, Lime) \o <<ColoredRune(SP, NoSettings)>>
        \o colorizeAll(Tokenize(command))

commandIndicator == <<HeavyAngle>>

AddCommand(s, args, terminal) ==
    LET prompt == IF s.customPrompt # <<>> THEN s.customPrompt ELSE commandIndicator
        cmdString == Join(args)
    IN IF s.syntaxHighlight
       THEN AddContent(s, syntaxHighlightCommand(prompt, cmdString)
                              \o <<ColoredRune(NL, NoSettings)>>, terminal)
       ELSE AddContent(s, promptRunes(prompt, Lime) \o <<ColoredRune(SP, NoSettings)>>
                              \o colored(cmdString, DimGray)
                              \o <<ColoredRune(NL, NoSettings)>>, terminal)

\* the colour fields of theme.Theme, each a string of characters
ThemeFields ==
    {"Background", "Foreground", "Shadow",
     "Black", "Red", "Green", "Yellow", "Blue", "Magenta", "Cyan", "White",
     "BrightBlack", "BrightRed", "BrightGreen", "BrightYellow", "BrightBlue",
     "BrightMagenta", "BrightCyan", "BrightWhite"}

\* themes["default"]
defaultTheme ==
    [Background |-> <<"#", "1", "5", "1", "5", "1", "5">>,
     Foreground |-> <<"#", "D", "3", "D", "3", "D", "3">>,
     Shadow |-> <<"#", "1", "0", "1", "0", "1", "0", "6", "6">>,
     Black |-> <<"#", "0", "0", "0", "0", "0", "0">>,
     Red |-> <<"#", "E", "0", "6", "C", "7", "5">>,
     Green |-> <<"#", "9", "8", "C", "3", "7", "9">>,
     Yellow |-> <<"#", "E", "5", "C", "0", "7", "B">>,
     Blue |-> <<"#", "6", "1", "A", "F", "E", "F">>,
     Magenta |-> <<"#", "C", "6", "7", "8", "D", "D">>,
     Cyan |-> <<"#", "5", "6", "B", "6", "C", "2">>,
     White |-> <<"#", "A", "B", "B", "2", "B", "F">>,
     BrightBlack |-> <<"#", "5", "C", "6", "3", "7", "0">>,
     BrightRed |-> <<"#", "E", "0", "6", "C", "7", "5">>,
     BrightGreen |-> <<"#", "9", "8", "C", "3", "7", "9">>,
     BrightYellow |-> <<"#", "E", "5", "C", "0", "7", "B">>,
     BrightBlue |-> <<"#", "6", "1", "A", "F", "E", "F">>,
     BrightMagenta |-> <<"#", "C", "6", "7", "8", "D", "D">>,
     BrightCyan |-> <<"#", "5", "6", "B", "6", "C", "2">>,
     BrightWhite |-> <<"#", "F", "F", "F", "F", "F", "F">>]

\* bunt.LightGray
LightGray == <<211, 211, 211>>

NewImageCreator ==
    [content |-> <<>>,
     columns |-> 0,
     defaultForegroundColor |-> LightGray,
     currentTheme |-> defaultTheme,
     customPrompt |-> <<>>,
     syntaxHighlight |-> FALSE,
     noPromptDetect |-> FALSE]

----------------------------------------------------------------------------
(* package theme, and the theme of the Scaffold.                           *)

\* themes["catppuccin-mocha"]
catppuccinMocha ==
    [Background |-> <<"#", "1", "e", "1", "e", "2", "e">>,
     Foreground |-> <<"#", "c", "d", "d", "6", "f", "4">>,
     Shadow |-> <<"#", "1", "1", "1", "1", "1", "b", "6", "6">>,
     Black |-> <<"#", "4", "5", "4", "7", "5", "a">>,
     Red |-> <<"#", "f", "3", "8", "b", "a", "8">>,
     Green |-> <<"#", "a", "6", "e", "3", "a", "1">>,
     Yellow |-> <<"#", "f", "9", "e", "2", "a", "f">>,
     Blue |-> <<"#", "8", "9", "b", "4", "f", "a">>,
     Magenta |-> <<"#", "f", "5", "c", "2", "e", "7">>,
     Cyan |-> <<"#", "9", "4", "e", "2", "d", "5">>,
     White |-> <<"#", "b", "a", "c", "2", "d", "e">>,
     BrightBlack |-> <<"#", "5", "8", "5", "b", "7", "0">>,
     BrightRed |-> <<"#", "f", "3", "8", "b", "a", "8">>,
     BrightGreen |-> <<"#", "a", "6", "e", "3", "a", "1">>,
     BrightYellow |-> <<"#", "f", "9", "e", "2", "a", "f">>,
     BrightBlue |-> <<"#", "8", "9", "b", "4", "f", "a">>,
     BrightMagenta |-> <<"#", "f", "5", "c", "2", "e", "7">>,
     BrightCyan |-> <<"#", "9", "4", "e", "2", "d", "5">>,
     BrightWhite |-> <<"#", "a", "6", "a", "d", "c", "8">>]

\* theme.GetTheme, of the names "default" and "catppuccin-mocha" and of the
\* names that are not in the map themes
GetTheme(name) ==
    IF name = "default" THEN defaultTheme
    ELSE IF name = "catppuccin-mocha" THEN catppuccinMocha
    ELSE defaultTheme

\* no --theme-file
NoThemeFile == [kind |-> "none", present |-> {}, values |-> defaultTheme]

\* LoadThemeFromFile of a file given by its content: "unreadable", "malformed"
\* (not the JSON of an object of strings), or a JSON object with the fields
\* `present`; json.Unmarshal leaves the fields the object lacks empty
LoadThemeFromFile(file) ==
    IF file.kind \in {"unreadable", "malformed"}
    THEN [theme |-> [f \in ThemeFields |-> <<>>], err |-> TRUE]
    ELSE [theme |-> [f \in ThemeFields |->
                        IF f \in file.present THEN file.values[f] ELSE <<>>],
          err |-> FALSE]

SetTheme(s, t) ==
    [s EXCEPT !.currentTheme = t,
              !.defaultForegroundColor =
                  IF ParseColor(t.Foreground) # <<>> THEN ParseColor(t.Foreground)
                  ELSE @]

\* the alpha theme.ParseColor gives a colour it parses
ParseAlpha(hex) ==
    LET h == IF hex[1] = "#" THEN Tail(hex) ELSE hex IN
    IF Len(h) = 8 THEN 16 * HexValue(h[7]) + HexValue(h[8]) ELSE 255

\* the color.RGBA <<r, g, b, a>> of a string theme.ParseColor parses
ParseRGBA(hex) == Append(ParseColor(hex), ParseAlpha(hex))

\* the map standardColors of remapAnsiColor: triplet, field of the theme
\* the map as it would be if white were (250, 250, 250), within the
\* tolerance of colours that bright white is within the tolerance of too
standardColors_CloseWhites ==
    {<<<<0, 0, 0>>, "Black">>, <<<<128, 0, 0>>, "Red">>,
     <<<<0, 128, 0>>, "Green">>, <<<<128, 128, 0>>, "Yellow">>,
     <<<<0, 0, 128>>, "Blue">>, <<<<128, 0, 128>>, "Magenta">>,
     <<<<0, 128, 128>>, "Cyan">>, <<<<250, 250, 250>>, "White">>,
     <<<<128, 128, 128>>, "BrightBlack">>, <<<<255, 0, 0>>, "BrightRed">>,
     <<<<0, 255, 0>>, "BrightGreen">>, <<<<255, 255, 0>>, "BrightYellow">>,
     <<<<0, 0, 255>>, "BrightBlue">>, <<<<255, 0, 255>>, "BrightMagenta">>,
     <<<<0, 255, 255>>, "BrightCyan">>, <<<<255, 255, 255>>, "BrightWhite">>}

standardColors ==
    {<<<<0, 0, 0>>, "Black">>, <<<<128, 0, 0>>, "Red">>,
     <<<<0, 128, 0>>, "Green">>, <<<<128, 128, 0>>, "Yellow">>,
     <<<<0, 0, 128>>, "Blue">>, <<<<128, 0, 128>>, "Magenta">>,
     <<<<0, 128, 128>>, "Cyan">>, <<<<192, 192, 192>>, "White">>,
     <<<<128, 128, 128>>, "BrightBlack">>, <<<<255, 0, 0>>, "BrightRed">>,
     <<<<0, 255, 0>>, "BrightGreen">>, <<<<255, 255, 0>>, "BrightYellow">>,
     <<<<0, 0, 255>>, "BrightBlue">>, <<<<255, 0, 255>>, "BrightMagenta">>,
     <<<<0, 255, 255>>, "BrightCyan">>, <<<<255, 255, 255>>, "BrightWhite">>}

tolerance == 5

Abs(n) == IF n < 0 THEN -n ELSE n

remapAnsiColor_ExactOnly(s, r, g, b) ==
    LET exact == {e \in standardColors :
                     /\ e[1] = <<r, g, b>>
                     /\ ParseColor(s.currentTheme[e[2]]) # <<>>}
    IN IF exact # {} THEN {ParseRGBA(s.currentTheme[e[2]]) : e \in exact}
       ELSE {<<r % 256, g % 256, b % 256, 255>>}

\* the colours remapAnsiColor may return: the loop ranges over a map, in any
\* order, and returns at the first entry within the tolerance that parses
remapAnsiColor(s, r, g, b) ==
    LET exact == {e \in standardColors :
                     /\ e[1] = <<r, g, b>>
                     /\ ParseColor(s.currentTheme[e[2]]) # <<>>}
        near == {e \in standardColors :
                     /\ Abs(r - e[1][1]) <= tolerance
                     /\ Abs(g - e[1][2]) <= tolerance
                     /\ Abs(b - e[1][3]) <= tolerance
                     /\ ParseColor(s.currentTheme[e[2]]) # <<>>}
    IN IF exact # {} THEN {ParseRGBA(s.currentTheme[e[2]]) : e \in exact}
       ELSE IF near # {} THEN {ParseRGBA(s.currentTheme[e[2]]) : e \in near}
       ELSE {<<r % 256, g % 256, b % 256, 255>>}

----------------------------------------------------------------------------
(* package cmd: rootCmd.RunE, by its stages.                               *)

DefaultAnsiColumns == 500

\* the default of the flag --filename, "out.png"
DefaultFilename == <<"o", "u", "t", ".", "p", "n", "g">>

PngExtension == <<".", "p", "n", "g">>

\* filepath.Ext: the suffix of the path from the last dot of its last element
RECURSIVE ExtFrom(_, _)
ExtFrom(path, k) ==
    IF k < 0 \/ path[k + 1] = "/" THEN <<>>
    ELSE IF path[k + 1] = "." THEN SubSeq(path, k + 1, Len(path))
    ELSE ExtFrom(path, k - 1)

Ext(path) == ExtFrom(path, Len(path) - 1)

\* the stages at which RunE has returned or has panicked
Ended == {"done", "failed", "panic"}

\* the files after the deferred calls dfr have run
RunDeferred(dfr, opn, dsk) ==
    [open |-> opn \ {h \in opn : <<"Close", h>> \in dfr},
     disk |-> dsk \ {f \in dsk : <<"Remove", f>> \in dfr}]

\* the files and the deferred calls after a stage that leaves them as opn,
\* dsk and dfr: when RunE returns or panics, its deferred calls run
Returning(opn, dsk, dfr) ==
    IF stage' \in Ended
    THEN /\ open' = RunDeferred(dfr, opn, dsk).open
         /\ disk' = RunDeferred(dfr, opn, dsk).disk
         /\ deferred' = {}
    ELSE /\ open' = opn
         /\ disk' = dsk
         /\ deferred' = dfr

\* saveToClipboard(scaffold): it fails or not, having drawn the image or not
saveToClipboard == [err : BOOLEAN, rasterized : BOOLEAN]

\* what the editor may leave in the temporary file: the content as it was, or
\* with its last rune deleted
EditResults(b) == {b, SubSeq(b, 1, Len(b) - 1)}

----------------------------------------------------------------------------
(* The states in which a component is not in use.                          *)

VTIdle ==
    /\ parsed = <<>>
    /\ i = 0
    /\ vt = NewVirtualTerminal(0)
    /\ pc = "idle"
    /\ result = <<>>
    /\ iterations = 0

ImgIdle ==
    /\ scaffold = NewImageCreator
    /\ termCols = DefaultMaxColumns
    /\ in = <<>>

CmdIdle ==
    /\ flags = [rawRead |-> FALSE, rawWrite |-> FALSE, improvedANSI |-> FALSE,
                showCmd |-> FALSE, edit |-> FALSE, columns |-> 0,
                syntaxHighlight |-> FALSE, noPromptDetect |-> FALSE, args |-> <<>>,
                clipboard |-> FALSE, filename |-> <<>>]
    /\ source = <<>>
    /\ buf = <<>>
    /\ stage = "idle"
    /\ ansi = "none"
    /\ written = <<>>

LexIdle ==
    /\ l = NewLexer(<<>>)
    /\ isFirstWord = TRUE
    /\ lexpc = "idle"

PngIdle ==
    /\ raster = [width |-> 0, height |-> 0, opaque |-> {}]
    /\ clipCanvas = FALSE
    /\ encoded = <<>>

ThemeIdle ==
    /\ themeFlags = [theme |-> "default", themeFile |-> NoThemeFile]
    /\ themePc = "start"
    /\ colorIn = <<>>
    /\ colorOut = <<>>

ResIdle ==
    /\ open = {}
    /\ disk = {}
    /\ deferred = {}
    /\ rasterized = FALSE
    /\ runErr = "none"
    /\ called = {}

AuxIdle == PngIdle /\ ThemeIdle /\ ResIdle

\* every sequence over S of length at most n
SeqUpTo(S, n) == UNION {[1..k -> S] : k \in 0..n}

Plain(sym) == ColoredRune(sym, NoSettings)

----------------------------------------------------------------------------
(* Parse as a state machine: one action per branch of the loop body.       *)

\* the assignments of an iteration that ends as r
Iterated(r) ==
    /\ i' = r.i
    /\ vt' = r.vt
    /\ pc' = IF r.panic THEN "panic" ELSE "loop"
    /\ iterations' = IF r.panic THEN iterations ELSE iterations + 1
    /\ UNCHANGED <<parsed, result, imgVars, cmdVars, lexVars, auxVars>>

ParseEscape ==
    /\ pc = "loop"
    /\ i < Len(parsed)
    /\ parsed[i + 1].Symbol = ESC
    /\ Iterated(escapeBranch(parsed, i, vt))

ParseCarriageReturn ==
    /\ pc = "loop"
    /\ i < Len(parsed)
    /\ parsed[i + 1].Symbol = CR
    /\ Iterated(carriageReturnBranch(i, vt))

ParseNewline ==
    /\ pc = "loop"
    /\ i < Len(parsed)
    /\ parsed[i + 1].Symbol = NL
    /\ Iterated(newlineBranch(i, vt))

ParseBackspace ==
    /\ pc = "loop"
    /\ i < Len(parsed)
    /\ parsed[i + 1].Symbol = BS
    /\ Iterated(backspaceBranch(i, vt))

ParseCharacter ==
    /\ pc = "loop"
    /\ i < Len(parsed)
    /\ parsed[i + 1].Symbol \notin Controls
    /\ Iterated(characterBranch(parsed[i + 1], i, vt))

ParseReturn ==
    /\ pc = "loop"
    /\ i >= Len(parsed)
    /\ result' = toBuntString(vt)
    /\ pc' = "done"
    /\ UNCHANGED <<parsed, i, vt, iterations, imgVars, cmdVars, lexVars, auxVars>>

ParseInit(inputs, widths) ==
    /\ parsed \in inputs
    /\ \E maxColumns \in widths : vt = NewVirtualTerminal(maxColumns)
    /\ i = 0
    /\ pc = "loop"
    /\ result = <<>>
    /\ iterations = 0
    /\ ImgIdle /\ CmdIdle /\ LexIdle /\ AuxIdle

\* Spec: the emulator on every input over two plain characters, the controls
\* and the pieces of a CSI sequence
Alphabet ==
    {Plain("x"), ColoredRune("y", Red), Plain(NL), Plain(CR), Plain(BS), Plain(ESC),
     Plain("["), Plain(";"), Plain("2"), Plain("K"), Plain("C")}

Init == ParseInit(SeqUpTo(Alphabet, MaxLen), 1..MaxCols)

Next ==
    \/ ParseEscape
    \/ ParseCarriageReturn
    \/ ParseNewline
    \/ ParseBackspace
    \/ ParseCharacter
    \/ ParseReturn

Spec == Init /\ [][Next]_vars

\* SpecRun: the emulator on a run of plain characters
RunAlphabet == {Plain("x"), ColoredRune("y", Red)}

InitRun == ParseInit(SeqUpTo(RunAlphabet, MaxRun), 1..MaxRunCols)

NextRun == ParseCharacter \/ ParseReturn

SpecRun == InitRun /\ [][NextRun]_vars

\* SpecText: the emulator on plain characters and line breaks
TextAlphabet == {Plain("x"), ColoredRune("y", Red), Plain(NL)}

InitText == ParseInit(SeqUpTo(TextAlphabet, MaxText), 1..MaxCols)

NextText == ParseNewline \/ ParseCharacter \/ ParseReturn

SpecText == InitText /\ [][NextText]_vars

(* SpecCsi: the emulator on a text followed by cursor and erase commands.  *)
(* The input is one of a few texts, then up to MaxCsi commands, each a     *)
(* whole CSI sequence, a plain character, a carriage return or a backspace. *)

PlainText(syms) == [k \in 1..Len(syms) |-> Plain(syms[k])]

\* ESC '[' and the characters of the sequence
Csi(syms) == <<Plain(ESC), Plain("[")>> \o PlainText(syms)

CsiTexts ==
    {<<>>,
     <<Plain("x"), ColoredRune("y", Red)>>,
     <<Plain("x"), ColoredRune("y", Red), Plain("x")>>,
     <<Plain("x"), ColoredRune("y", Red), Plain(BS)>>,
     <<Plain("x"), Plain(NL), ColoredRune("y", Red), Plain("x")>>,
     <<Plain("x"), ColoredRune("y", Red), Plain(NL)>>,
     <<Plain("x"), ColoredRune("y", Red), Plain("x"), Plain(BS), Plain(BS)>>,
     <<Plain("x"), Plain(NL), Plain(NL), ColoredRune("y", Red)>>,
     <<Plain("x"), ColoredRune("y", Red), Plain(NL), Plain("x"), Plain(NL)>>}

\* the decimal digits of n >= 0
RECURSIVE Itoa(_)
Itoa(n) ==
    LET d == <<"0", "1", "2", "3", "4", "5", "6", "7", "8", "9">>[(n % 10) + 1]
    IN IF n < 10 THEN <<d>> ELSE Append(Itoa(n \div 10), d)

CsiCommands ==
    {Csi(<<"A">>), Csi(<<"B">>), Csi(<<"2", "C">>), Csi(Append(Itoa(MaxInt), "C")),
     Csi(<<"D">>),
     Csi(<<"0", "A">>), Csi(<<"0", "B">>), Csi(<<"0", "C">>), Csi(<<"0", "D">>),
     Csi(<<"0", "G">>), Csi(<<"2", "G">>),
     Csi(<<"H">>), Csi(<<"2", ";", "2", "H">>), Csi(<<"0", ";", "0", "f">>),
     Csi(<<";", "5", "H">>), Csi(<<"3", ";", "H">>), Csi(<<"1", "0", ";", "3", "f">>),
     Csi(<<"J">>), Csi(<<"0", "J">>), Csi(<<"1", "J">>), Csi(<<"2", "J">>),
     Csi(<<"3", "J">>),
     Csi(<<"K">>), Csi(<<"0", "K">>), Csi(<<"1", "K">>), Csi(<<"2", "K">>),
     Csi(<<"s">>), Csi(<<"u">>), Csi(<<"2", "x">>),
     <<Plain("x")>>, <<Plain(CR)>>, <<Plain(BS)>>}

RECURSIVE Flatten(_)
Flatten(seqs) == IF seqs = <<>> THEN <<>> ELSE Head(seqs) \o Flatten(Tail(seqs))

InitCsi ==
    ParseInit({text \o Flatten(commands) :
                  text \in CsiTexts, commands \in SeqUpTo(CsiCommands, MaxCsi)}, {0})

NextCsi ==
    \/ ParseEscape
    \/ ParseCarriageReturn
    \/ ParseNewline
    \/ ParseBackspace
    \/ ParseCharacter
    \/ ParseReturn

SpecCsi == InitCsi /\ [][NextCsi]_vars

(* SpecRows: the emulator on up to MaxRowOps operations that add, leave or *)
(* remove rows: plain characters, line breaks, the cursor movements A, B,  *)
(* H and f, and the erase commands J and K.  A move down by MaxInt rows,   *)
(* if any, comes last and after a line break: from row 0, or followed by   *)
(* another operation, it makes the grid MaxInt rows long.                  *)

RowOps ==
    {<<Plain("x")>>, <<Plain(NL)>>,
     Csi(<<"A">>), Csi(<<"B">>),
     Csi(<<"H">>), Csi(<<"2", ";", "2", "H">>), Csi(<<"3", "f">>),
     Csi(<<"J">>), Csi(<<"1", "J">>), Csi(<<"2", "J">>), Csi(<<"3", "J">>),
     Csi(<<"K">>), Csi(<<"1", "K">>), Csi(<<"2", "K">>)}

FarDown == <<Plain(NL)>> \o Csi(Append(Itoa(MaxInt), "B"))

InitRows ==
    ParseInit({Flatten(ops) \o last :
                  ops \in SeqUpTo(RowOps, MaxRowOps), last \in {<<>>, FarDown}}, {0})

NextRows ==
    \/ ParseEscape
    \/ ParseNewline
    \/ ParseCharacter
    \/ ParseReturn

SpecRows == InitRows /\ [][NextRows]_vars

----------------------------------------------------------------------------
(* SpecWrap: Scaffold.AddContent on a run of plain characters, for every   *)
(* column width, 0 (none set) included.                                    *)

InitWrap ==
    /\ \E columns \in 0..MaxRunCols : scaffold = SetColumns(NewImageCreator, columns)
    /\ termCols \in 1..MaxTermCols
    /\ in = <<>>
    /\ VTIdle /\ CmdIdle /\ LexIdle /\ AuxIdle

AddContentCall ==
    /\ scaffold.content = <<>>
    /\ \E stream \in SeqUpTo(RunAlphabet, MaxRun) :
        /\ in' = stream
        /\ scaffold' = AddContent(scaffold, stream, termCols).s
    /\ UNCHANGED <<termCols, vtVars, cmdVars, lexVars, auxVars>>

NextWrap == AddContentCall

SpecWrap == InitWrap /\ [][NextWrap]_vars

(* SpecPrompt: Scaffold.AddContent on content that may start with a prompt *)
(* line, with prompt detection on and off, for every column width.         *)

PromptAlphabet ==
    {Plain(HeavyAngle), Plain("$"), Plain(SP), Plain("l"), ColoredRune("f", Red), Plain(NL)}

DisablePromptDetection(s, disable) == [s EXCEPT !.noPromptDetect = disable]

InitPrompt ==
    /\ \E columns \in 0..MaxFlagColumns, disable \in BOOLEAN :
          scaffold = DisablePromptDetection(SetColumns(NewImageCreator, columns), disable)
    /\ termCols \in 1..(MaxPrompt + 1)
    /\ in = <<>>
    /\ VTIdle /\ CmdIdle /\ LexIdle /\ AuxIdle

AddContentPrompt ==
    /\ scaffold.content = <<>>
    /\ \E stream \in SeqUpTo(PromptAlphabet, MaxPrompt) :
        /\ in' = stream
        /\ scaffold' = AddContent(scaffold, stream, termCols).s
    /\ UNCHANGED <<termCols, vtVars, cmdVars, lexVars, auxVars>>

NextPrompt == AddContentPrompt

SpecPrompt == InitPrompt /\ [][NextPrompt]_vars

(* SpecClip: Scaffold.WritePNG on every image of MaxImage by MaxImage      *)
(* pixels, with clip-canvas on and off.                                    *)

Pixels == (0..(MaxImage - 1)) \X (0..(MaxImage - 1))

InitClip ==
    /\ \E opaque \in SUBSET Pixels :
          raster = [width |-> MaxImage, height |-> MaxImage, opaque |-> opaque]
    /\ clipCanvas \in BOOLEAN
    /\ encoded = <<>>
    /\ VTIdle /\ ImgIdle /\ CmdIdle /\ LexIdle /\ ThemeIdle /\ ResIdle

WritePNGCall ==
    /\ encoded = <<>>
    /\ encoded' = <<WritePNG(clipCanvas, raster)>>
    /\ UNCHANGED <<raster, clipCanvas, vtVars, imgVars, cmdVars, lexVars, themeVars,
                   resVars>>

NextClip == WritePNGCall

SpecClip == InitClip /\ [][NextClip]_vars

(* SpecTheme: the theme of a run, from the flags --theme and --theme-file  *)
(* to the colours of the glyphs: RunE resolves the theme and sets it, then *)
(* Scaffold.image remaps a decoded colour.                                 *)

\* a theme file with every field, the red of it "#334455" and the bright
\* blue with an alpha
customTheme ==
    [defaultTheme EXCEPT !.Red = <<"#", "3", "3", "4", "4", "5", "5">>,
                         !.BrightBlue = <<"#", "1", "1", "2", "2", "3", "3", "8", "0">>]

\* a value that is no colour
NotAColor == <<"r", "e", "d">>

ThemeFiles ==
    {[kind |-> "unreadable", present |-> {}, values |-> defaultTheme],
     [kind |-> "malformed", present |-> {}, values |-> defaultTheme],
     [kind |-> "json", present |-> ThemeFields, values |-> customTheme]}
    \cup {[kind |-> "json", present |-> ThemeFields \ {f}, values |-> customTheme] :
             f \in ThemeFields}
    \cup {[kind |-> "json", present |-> ThemeFields,
           values |-> [customTheme EXCEPT ![f] = NotAColor]] : f \in ThemeFields}

\* two of the themes of the map themes, and a name that is not in it
ThemeNames == {"default", "catppuccin-mocha", "unknown"}

\* the components of the decoded colours: the canonical ones, the ones at
\* the tolerance and one past it, and others
Components == {0, 5, 6, 17, 29, 123, 128, 133, 134, 192, 200, 250, 255}

InitTheme ==
    /\ themeFlags \in
         {[theme |-> name, themeFile |-> NoThemeFile] : name \in ThemeNames}
         \cup {[theme |-> "default", themeFile |-> file] : file \in ThemeFiles}
    /\ themePc = "start"
    /\ colorIn = <<>>
    /\ colorOut = <<>>
    /\ VTIdle /\ ImgIdle /\ CmdIdle /\ LexIdle /\ PngIdle /\ ResIdle

\* RunE: load theme, apply theme to scaffold
RunTheme ==
    /\ themePc = "start"
    /\ IF themeFlags.themeFile.kind # "none"
       THEN LET loaded == LoadThemeFromFile(themeFlags.themeFile) IN
            IF loaded.err
            THEN /\ themePc' = "failed"
                 /\ UNCHANGED scaffold
            ELSE /\ themePc' = "themed"
                 /\ scaffold' = SetTheme(scaffold, loaded.theme)
       ELSE /\ themePc' = "themed"
            /\ scaffold' = SetTheme(scaffold, GetTheme(themeFlags.theme))
    /\ UNCHANGED <<themeFlags, colorIn, colorOut, termCols, in,
                   vtVars, cmdVars, lexVars, pngVars, resVars>>

\* Scaffold.image: the colour of a glyph whose foreground is set
RemapColor ==
    /\ themePc = "themed"
    /\ \E r \in Components, g \in Components, b \in Components :
        /\ colorIn' = <<r, g, b>>
        /\ colorOut' \in remapAnsiColor(scaffold, r, g, b)
    /\ themePc' = "drawn"
    /\ UNCHANGED <<themeFlags, imgVars, vtVars, cmdVars, lexVars, pngVars, resVars>>

NextTheme == RunTheme \/ RemapColor

SpecTheme == InitTheme /\ [][NextTheme]_vars

----------------------------------------------------------------------------
(* SpecEcho: Scaffold.AddCommand, the echo of the command line, in every   *)
(* configuration of the scaffold: syntax highlighting, prompt detection,   *)
(* the prompt of --prompt.                                                 *)

SetPrompt(s, prompt) == [s EXCEPT !.customPrompt = prompt]

\* no --prompt, and the prompts "$", ">" and the lambda
EchoPrompts == {<<>>, <<"$">>, <<">">>, <<Lambda>>}

\* the command lines ls -a, cd /d, if c, c 1, c $d, c | c, c #c, c "d", c d
EchoCommands ==
    {<< <<108, 115>>, <<45, 97>> >>,
     << <<99, 100>>, <<47, 100>> >>,
     << <<105, 102>>, <<99>> >>,
     << <<99>>, <<49>> >>,
     << <<99>>, <<36, 100>> >>,
     << <<99>>, <<124>>, <<99>> >>,
     << <<99>>, <<35, 99>> >>,
     << <<99>>, <<34, 100, 34>> >>,
     << <<99>>, <<100>> >>}

InitEcho ==
    /\ \E highlight \in BOOLEAN, disable \in BOOLEAN, prompt \in EchoPrompts :
          scaffold = SetPrompt(DisablePromptDetection(
                                   [NewImageCreator EXCEPT !.syntaxHighlight = highlight],
                                   disable), prompt)
    /\ \E args \in EchoCommands :
          flags = [rawRead |-> FALSE, rawWrite |-> FALSE, improvedANSI |-> FALSE,
                   showCmd |-> TRUE, edit |-> FALSE, columns |-> 0,
                   syntaxHighlight |-> scaffold.syntaxHighlight,
                   noPromptDetect |-> scaffold.noPromptDetect, args |-> args,
                   clipboard |-> FALSE, filename |-> <<>>]
    /\ termCols = DefaultMaxColumns
    /\ in = <<>>
    /\ source = <<>>
    /\ buf = <<>>
    /\ stage = "showcmd"
    /\ ansi = "none"
    /\ written = <<>>
    /\ VTIdle /\ LexIdle /\ AuxIdle

\* scaffold.AddCommand(args...)
AddCommandCall ==
    /\ stage = "showcmd"
    /\ LET r == AddCommand(scaffold, flags.args, termCols) IN
          /\ scaffold' = r.s
          /\ stage' = IF r.err THEN "failed" ELSE "capture"
    /\ called' = called \cup {"AddCommand"}
    /\ UNCHANGED <<termCols, in, flags, source, buf, ansi, written,
                   open, disk, deferred, rasterized, runErr,
                   vtVars, lexVars, pngVars, themeVars>>

NextEcho == AddCommandCall

SpecEcho == InitEcho /\ [][NextEcho]_vars

----------------------------------------------------------------------------
(* SpecCmd: a run of rootCmd.RunE, one action per stage.  The flags are    *)
(* those of the command line; the terminal width and the outcome of each   *)
(* external call (the pseudo terminal, the files, the editor) are free.    *)

SourceAlphabet == {Plain("x"), Plain(NL), Plain(CR), Plain("$"), Plain(BadSGR)}

\* the command line "ls -a"
CommandArgs == << <<108, 115>>, <<45, 97>> >>

\* the names --filename is given: none, "o.png", "o.txt", "o", "o.png/o",
\* "o.PNG" and "o.png.gz"
Filenames ==
    {<<>>,
     <<"o", ".", "p", "n", "g">>,
     <<"o", ".", "t", "x", "t">>,
     <<"o">>,
     <<"o", ".", "p", "n", "g", "/", "o">>,
     <<"o", ".", "P", "N", "G">>,
     <<"o", ".", "p", "n", "g", ".", "g", "z">>}

InitCmd ==
    /\ flags \in [rawRead : BOOLEAN, rawWrite : BOOLEAN, improvedANSI : BOOLEAN,
                   showCmd : BOOLEAN, edit : BOOLEAN, columns : 0..MaxFlagColumns,
                   syntaxHighlight : BOOLEAN, noPromptDetect : BOOLEAN,
                   args : {CommandArgs}, clipboard : BOOLEAN, filename : {<<>>}]
    /\ source \in SeqUpTo(SourceAlphabet, MaxSource)
    /\ termCols \in 1..MaxTermCols
    /\ scaffold = NewImageCreator
    /\ in = <<>>
    /\ buf = <<>>
    /\ stage = "setup"
    /\ ansi = "none"
    /\ written = <<>>
    /\ VTIdle /\ LexIdle /\ PngIdle /\ ThemeIdle /\ ResIdle

\* the flags that configure the scaffold
RunSetup ==
    /\ stage = "setup"
    /\ scaffold' = [(IF flags.columns > 0 THEN SetColumns(scaffold, flags.columns)
                                           ELSE scaffold)
                       EXCEPT !.syntaxHighlight = flags.syntaxHighlight,
                              !.noPromptDetect = flags.noPromptDetect]
    /\ stage' = "showcmd"
    /\ UNCHANGED <<termCols, in, flags, source, buf, ansi, written, vtVars, lexVars, auxVars>>

RunShowCmd_IgnoresRawRead ==
    /\ stage = "showcmd"
    /\ IF flags.showCmd
       THEN LET r == AddCommand(scaffold, flags.args, termCols) IN
            /\ scaffold' = r.s
            /\ stage' = IF r.err THEN "failed" ELSE "capture"
            /\ runErr' = IF r.err THEN "AddCommand" ELSE runErr
            /\ called' = called \cup {"AddCommand"}
       ELSE /\ stage' = "capture"
            /\ UNCHANGED <<scaffold, runErr, called>>
    /\ Returning(open, disk, deferred)
    /\ UNCHANGED <<termCols, in, flags, source, buf, ansi, written, rasterized,
                   vtVars, lexVars, pngVars, themeVars>>

\* --show-cmd: the command line is added ahead of the content
RunShowCmd ==
    /\ stage = "showcmd"
    /\ IF flags.showCmd /\ ~flags.rawRead
       THEN LET r == AddCommand(scaffold, flags.args, termCols) IN
            /\ scaffold' = r.s
            /\ stage' = IF r.err THEN "failed" ELSE "capture"
            /\ runErr' = IF r.err THEN "AddCommand" ELSE runErr
            /\ called' = called \cup {"AddCommand"}
       ELSE /\ stage' = "capture"
            /\ UNCHANGED <<scaffold, runErr, called>>
    /\ Returning(open, disk, deferred)
    /\ UNCHANGED <<termCols, in, flags, source, buf, ansi, written, rasterized,
                   vtVars, lexVars, pngVars, themeVars>>

\* the content: the output of the command, or the file of --raw-read
RunCapture ==
    /\ stage = "capture"
    /\ \E ok \in BOOLEAN :
        IF ok THEN buf' = buf \o source /\ stage' = "edit" /\ UNCHANGED runErr
              ELSE UNCHANGED buf /\ stage' = "failed" /\ runErr' = "capture"
    /\ called' = called \cup {IF flags.rawRead THEN "readFile" ELSE "pt.Command"}
    /\ Returning(open, disk, deferred)
    /\ UNCHANGED <<imgVars, flags, source, ansi, written, rasterized,
                   vtVars, lexVars, pngVars, themeVars>>

\* --edit: the content goes through the editor, in a temporary file
RunEdit ==
    /\ stage = "edit"
    /\ IF flags.edit /\ ~flags.rawRead
       THEN \/ /\ UNCHANGED buf
               /\ stage' = "failed"
               /\ runErr' = "CreateTemp"
               /\ called' = called \cup {"CreateTemp"}
               /\ Returning(open, disk, deferred)
            \/ /\ \/ /\ \E edited \in EditResults(buf) : buf' = edited
                     /\ stage' = "ansi"
                     /\ UNCHANGED runErr
                     /\ called' = called \cup {"CreateTemp", "editor"}
                  \/ /\ UNCHANGED buf
                     /\ stage' = "failed"
                     /\ runErr' = "edit"
                     /\ \E started \in BOOLEAN :
                           called' = called \cup {"CreateTemp"}
                                            \cup (IF started THEN {"editor"} ELSE {})
               /\ Returning(open \cup {"tmpFile"}, disk \cup {"tmpFile"},
                            deferred \cup {<<"Remove", "tmpFile">>})
       ELSE /\ UNCHANGED <<buf, runErr, called>>
            /\ stage' = "ansi"
            /\ Returning(open, disk, deferred)
    /\ UNCHANGED <<imgVars, flags, source, ansi, written, rasterized,
                   vtVars, lexVars, pngVars, themeVars>>

\* --improved-ansi: vt.Parse(&buf) reads the buffer to its end, and the
\* buffer is written anew only when Parse returns no error
RunImprovedAnsi ==
    /\ stage = "ansi"
    /\ IF flags.improvedANSI /\ flags.rawRead
       THEN LET columns == IF flags.columns > 0 THEN flags.columns
                                                ELSE DefaultAnsiColumns
                r == Parse(NewVirtualTerminal(columns), buf)
            IN /\ buf' = IF r.status = "ok" THEN String(r.result) ELSE <<>>
               /\ ansi' = IF r.status = "panic" THEN ansi ELSE r.status
               /\ stage' = IF r.status = "panic" THEN "panic" ELSE "content"
       ELSE /\ stage' = "content"
            /\ UNCHANGED <<buf, ansi>>
    /\ Returning(open, disk, deferred)
    /\ UNCHANGED <<imgVars, flags, source, written, runErr, rasterized, called,
                   vtVars, lexVars, pngVars, themeVars>>

\* --raw-write: the content is added with the columns set to 0 and written,
\* to the standard output or to a file that is created
RunRawWrite ==
    /\ stage = "content"
    /\ flags.rawWrite
    /\ LET originalColumns == GetColumns(scaffold)
           r == AddContent(SetColumns(scaffold, 0), buf, termCols)
       IN /\ in' = buf
          /\ buf' = <<>>
          /\ IF r.err
             THEN /\ scaffold' = r.s
                  /\ stage' = "failed"
                  /\ runErr' = "AddContent"
                  /\ UNCHANGED written
                  /\ Returning(open, disk, deferred)
             ELSE /\ scaffold' = SetColumns(r.s, originalColumns)
                  /\ \E output \in {"Stdout", "created", "failed"} :
                        IF output = "failed"
                        THEN /\ stage' = "failed"
                             /\ runErr' = "Create"
                             /\ UNCHANGED written
                             /\ Returning(open, disk, deferred)
                        ELSE /\ written' = WriteRaw(SetColumns(r.s, originalColumns))
                             /\ stage' = "done"
                             /\ UNCHANGED runErr
                             /\ IF output = "Stdout"
                                THEN Returning(open, disk, deferred)
                                ELSE Returning(open \cup {"output"},
                                               disk \cup {"output"},
                                               deferred \cup {<<"Close", "output">>})
    /\ UNCHANGED <<termCols, flags, source, ansi, rasterized, called,
                   vtVars, lexVars, pngVars, themeVars>>

\* without --raw-write the content is added for the image
RunAddContent ==
    /\ stage = "content"
    /\ ~flags.rawWrite
    /\ LET r == AddContent(scaffold, buf, termCols) IN
          /\ in' = buf
          /\ buf' = <<>>
          /\ scaffold' = r.s
          /\ stage' = IF r.err THEN "failed" ELSE "save"
          /\ runErr' = IF r.err THEN "AddContent" ELSE runErr
    /\ Returning(open, disk, deferred)
    /\ UNCHANGED <<termCols, flags, source, ansi, written, rasterized, called,
                   vtVars, lexVars, pngVars, themeVars>>

RunSave_CreateFirst ==
    /\ stage = "save"
    /\ IF flags.clipboard
       THEN /\ \E r \in saveToClipboard :
                /\ rasterized' = r.rasterized
                /\ stage' = IF r.err THEN "failed" ELSE "done"
                /\ runErr' = IF r.err THEN "clipboard" ELSE runErr
            /\ Returning(open, disk, deferred)
       ELSE LET filename == IF flags.filename = <<>> THEN DefaultFilename
                                                     ELSE flags.filename
            IN \/ /\ stage' = "failed"
                  /\ runErr' = "Create"
                  /\ UNCHANGED rasterized
                  /\ Returning(open, disk, deferred)
               \/ /\ IF Ext(filename) # PngExtension
                     THEN /\ stage' = "failed"
                          /\ runErr' = "extension"
                          /\ UNCHANGED rasterized
                     ELSE /\ rasterized' = TRUE
                          /\ \E ok \in BOOLEAN :
                                /\ stage' = IF ok THEN "done" ELSE "failed"
                                /\ runErr' = IF ok THEN runErr ELSE "WritePNG"
                  /\ Returning(open \cup {"file"}, disk \cup {"file"},
                               deferred \cup {<<"Close", "file">>})
    /\ UNCHANGED <<imgVars, flags, source, buf, ansi, written, called,
                   vtVars, lexVars, pngVars, themeVars>>

\* the image goes to the clipboard, or to the file of --filename: the
\* extension is checked, the file created and the image written
RunSave ==
    /\ stage = "save"
    /\ IF flags.clipboard
       THEN /\ \E r \in saveToClipboard :
                /\ rasterized' = r.rasterized
                /\ stage' = IF r.err THEN "failed" ELSE "done"
                /\ runErr' = IF r.err THEN "clipboard" ELSE runErr
            /\ Returning(open, disk, deferred)
       ELSE LET filename == IF flags.filename = <<>> THEN DefaultFilename
                                                     ELSE flags.filename
            IN IF Ext(filename) # PngExtension
               THEN /\ stage' = "failed"
                    /\ runErr' = "extension"
                    /\ UNCHANGED rasterized
                    /\ Returning(open, disk, deferred)
               ELSE \/ /\ stage' = "failed"
                       /\ runErr' = "Create"
                       /\ UNCHANGED rasterized
                       /\ Returning(open, disk, deferred)
                    \/ /\ rasterized' = TRUE
                       /\ \E ok \in BOOLEAN :
                             /\ stage' = IF ok THEN "done" ELSE "failed"
                             /\ runErr' = IF ok THEN runErr ELSE "WritePNG"
                       /\ Returning(open \cup {"file"}, disk \cup {"file"},
                                    deferred \cup {<<"Close", "file">>})
    /\ UNCHANGED <<imgVars, flags, source, buf, ansi, written, called,
                   vtVars, lexVars, pngVars, themeVars>>

NextCmd ==
    \/ RunSetup
    \/ RunShowCmd
    \/ RunCapture
    \/ RunEdit
    \/ RunImprovedAnsi
    \/ RunRawWrite
    \/ RunAddContent
    \/ RunSave

SpecCmd == InitCmd /\ [][NextCmd]_vars

(* SpecOut: the runs of rootCmd.RunE on one content, for every name of the *)
(* output file.                                                            *)

InitOut ==
    /\ flags \in [rawRead : BOOLEAN, rawWrite : BOOLEAN, improvedANSI : BOOLEAN,
                   showCmd : {FALSE}, edit : BOOLEAN, columns : {0},
                   syntaxHighlight : {FALSE}, noPromptDetect : {FALSE},
                   args : {CommandArgs}, clipboard : BOOLEAN, filename : Filenames]
    /\ source \in {<<Plain("x")>>, <<Plain(BadSGR)>>}
    /\ termCols = DefaultMaxColumns
    /\ scaffold = NewImageCreator
    /\ in = <<>>
    /\ buf = <<>>
    /\ stage = "setup"
    /\ ansi = "none"
    /\ written = <<>>
    /\ VTIdle /\ LexIdle /\ PngIdle /\ ThemeIdle /\ ResIdle

NextOut ==
    \/ RunSetup
    \/ RunShowCmd
    \/ RunCapture
    \/ RunEdit
    \/ RunImprovedAnsi
    \/ RunRawWrite
    \/ RunAddContent
    \/ RunSave

SpecOut == InitOut /\ [][NextOut]_vars

----------------------------------------------------------------------------
(* SpecLex: Tokenize as a state machine, one action per branch of its loop. *)

\* the bytes of the commands tried: space, line feed, the double quote,
\* '#', '$', '-', '/', '1', the backslash, 'c', 'd', '|', and of the bytes
\* above 127 the no-break space 0xA0 and the letter 0xC3
LexAlphabet == {32, 10, 34, 35, 36, 45, 47, 49, 92, 99, 100, 124, 160, 195}

InitLex ==
    /\ \E input \in SeqUpTo(LexAlphabet, MaxCmdLen) : l = NewLexer(input)
    /\ isFirstWord = TRUE
    /\ lexpc = "loop"
    /\ VTIdle /\ ImgIdle /\ CmdIdle /\ AuxIdle

\* the assignments of an iteration that ends as r
Tokenized(r) ==
    /\ l' = r.l
    /\ isFirstWord' = r.isFirstWord
    /\ UNCHANGED <<lexpc, vtVars, imgVars, cmdVars, auxVars>>

AtBranch(b) == lexpc = "loop" /\ l.pos < Len(l.input) /\ branchOf(l) = b

LexWhitespace == AtBranch("whitespace") /\ Tokenized(whitespaceBranch(l, isFirstWord))
LexComment == AtBranch("comment") /\ Tokenized(commentBranch(l, isFirstWord))
LexString == AtBranch("string") /\ Tokenized(stringBranch(l, isFirstWord))
LexVariable == AtBranch("variable") /\ Tokenized(variableBranch(l, isFirstWord))
LexOperator == AtBranch("operator") /\ Tokenized(operatorBranch(l, isFirstWord))
LexFlag == AtBranch("flag") /\ Tokenized(flagBranch(l, isFirstWord))
LexWord == AtBranch("word") /\ Tokenized(wordBranch(l, isFirstWord))
LexDefault == AtBranch("default") /\ Tokenized(defaultBranch(l, isFirstWord))

LexReturn ==
    /\ lexpc = "loop"
    /\ l.pos >= Len(l.input)
    /\ lexpc' = "done"
    /\ UNCHANGED <<l, isFirstWord, vtVars, imgVars, cmdVars, auxVars>>

NextLex ==
    \/ LexWhitespace
    \/ LexComment
    \/ LexString
    \/ LexVariable
    \/ LexOperator
    \/ LexFlag
    \/ LexWord
    \/ LexDefault
    \/ LexReturn

SpecLex == InitLex /\ [][NextLex]_vars

\* Tokenize is one sequential loop: it takes its next step whenever it has one
SpecLexLive == SpecLex /\ WF_vars(NextLex)

----------------------------------------------------------------------------
(* The claims.                                                             *)

Symbols(str) == [k \in 1..Len(str) |-> str[k].Symbol]

NotBreak(cr) == cr.Symbol # NL

\* C1: in Parse every write of a character targets a row that exists and a
\* column inside that row, so that Parse never fails on an index and always
\* returns.  Stated of the write that the next iteration is about to make
\* and of the outcome of the write just made.
C1_WritesInsideGrid ==
    /\ pc # "panic"
    /\ (pc = "loop" /\ i < Len(parsed) /\ parsed[i + 1].Symbol \notin Controls) =>
           LET w == wrapLine(padLine(ensureLineExists(vt, vt.cursorY))) IN
           /\ w.cursorY < Len(w.lines)
           /\ w.cursorX < Len(w.lines[w.cursorY + 1])

\* C2: on a run of n >= 1 plain characters Parse returns, and returns
\* ceil(n / maxColumns) lines of at most maxColumns characters each whose
\* characters, the breaks left out, are the input in order.
C2_RunWrapsIntoLines ==
    (pc \in {"done", "panic"} /\ Len(parsed) >= 1) =>
        /\ pc = "done"
        /\ Len(vt.lines) = (Len(parsed) + vt.maxColumns - 1) \div vt.maxColumns
        /\ \A r \in 1..Len(vt.lines) : Len(vt.lines[r]) <= vt.maxColumns
        /\ SelectSeq(result, NotBreak) = parsed

\* C3: with a fixed column width c > 0, AddContent on a run of characters
\* appends lines of at most c characters each, and the appended characters,
\* the inserted breaks left out, are the input in order.
C3_WrapWithinColumns ==
    (scaffold.columns > 0 /\ scaffold.content # <<>>) =>
        /\ \A k \in 1..(Len(scaffold.content) - scaffold.columns) :
               \E j \in k..(k + scaffold.columns) : scaffold.content[j].Symbol = NL
        /\ SelectSeq(scaffold.content, NotBreak) = in

\* the input from index k on is ESC '[' and then only digits and ';'
UnterminatedCSI(str, k) ==
    /\ k + 1 < Len(str)
    /\ str[k + 1].Symbol = ESC
    /\ str[k + 2].Symbol = "["
    /\ \A j \in (k + 3)..Len(str) : str[j].Symbol \in Digits \cup {";"}

\* C4: every iteration of the main loop of Parse advances the index by at
\* least one and not past the end of the input, by exactly one at an ESC '['
\* that no command letter follows; the iterations made never exceed the
\* index, so Parse ends within len(input) iterations.
C4_ParseAdvances ==
    /\ [](iterations <= i /\ i <= Len(parsed))
    /\ [][(pc = "loop" /\ pc' = "loop") =>
            /\ i' >= i + 1
            /\ iterations' = iterations + 1
            /\ UnterminatedCSI(parsed, i) => i' = i + 1]_vars

\* C4, its case: the ESC of an unterminated ESC '[' has just been skipped
C4_Witness ==
    /\ pc = "loop"
    /\ i >= 1
    /\ iterations >= 1
    /\ UnterminatedCSI(parsed, i - 1)
    /\ Len(parsed) >= i + 2

\* C5: on input of plain characters and line breaks Parse returns, and the
\* symbols it returns are the symbols of the input, for every maxColumns.
C5_PlainTextIdentity ==
    (pc \in {"done", "panic"}) =>
        /\ pc = "done"
        /\ Symbols(result) = Symbols(parsed)

\* C6: with raw-write the wrap step inserts no line break, whatever the
\* columns flag, the terminal width and the line lengths: what the step of
\* raw-write appends to the content is the decoded input after prompt
\* detection, rune for rune.
C6_RawWriteInsertsNoBreak ==
    [][(stage = "content" /\ flags.rawWrite /\ stage' = "done") =>
          scaffold'.content =
              scaffold.content \o enhanceRawContent(scaffold, ParseStream(in').str)]_vars

\* C7: with raw-write, without show-cmd, improved-ansi and edit, what WriteRaw
\* writes is the captured or read input: nothing inserted, removed,
\* recoloured or reordered.
C7_RawWriteIsInput ==
    (stage = "done" /\ flags.rawWrite /\ ~flags.showCmd /\ ~flags.improvedANSI
        /\ ~flags.edit) => written = source

\* C8: when vt.Parse returns an error on the improved-ansi path the buffer
\* still holds the original input, and that input is what AddContent is
\* then given.
C8_ParseErrorKeepsInput ==
    (ansi = "error") => IF stage = "content" THEN buf = source ELSE in = source

\* C9: in every run with improved-ansi set, the content that reaches
\* AddContent, captured from a command or read by raw-read, is the output of
\* the emulator on it.
C9_ImprovedAnsiAlwaysEmulates ==
    (flags.improvedANSI /\ (flags.rawRead \/ ~flags.edit) /\ stage \in {"save", "done"}) =>
        LET columns == IF flags.columns > 0 THEN flags.columns ELSE DefaultAnsiColumns
            r == Parse(NewVirtualTerminal(columns), source)
        IN r.status = "ok" /\ in = String(r.result)

RECURSIVE ConcatValues(_)
ConcatValues(tokens) ==
    IF tokens = <<>> THEN <<>>
    ELSE Head(tokens).Value \o ConcatValues(Tail(tokens))

\* C10: the Values of the tokens Tokenize returns, concatenated in order,
\* are the input string, for every string of bytes.
C10_TokensReproduceInput ==
    (lexpc = "done") => ConcatValues(l.tokens) = l.input

PromptGlyphs == {HeavyArrow, HeavyAngle, "$", "#", Lambda, Arrow, "%"}

BeginsWithGlyph(line) == line # <<>> /\ line[1].Symbol \in PromptGlyphs

BlankLine(line) == \A k \in 1..Len(line) : line[k].Symbol \in {SP, TAB, CR}

\* the position of the first line break of str (1-based), 0 when it has none
FirstBreak(str) ==
    IF \E e \in 1..Len(str) : str[e].Symbol = NL
    THEN CHOOSE e \in 1..Len(str) :
             str[e].Symbol = NL /\ \A j \in 1..(e - 1) : str[j].Symbol # NL
    ELSE 0

\* the line of str that starts at position from (1-based)
LineFrom(str, from) ==
    LET tail == SubSeq(str, from, Len(str))
        e == FirstBreak(tail)
    IN IF e = 0 THEN tail ELSE SubSeq(tail, 1, e - 1)

\* the content is the first line highlighted, a line break, one more line
\* break when blank says so, and the rest as it was, wrapped to the width
PromptLayout(blank) ==
    LET e == FirstBreak(in)
        expected == highlightCommandLine(scaffold, SubSeq(in, 1, e - 1))
                      \o <<Plain(NL)>>
                      \o (IF blank THEN <<Plain(NL)>> ELSE <<>>)
                      \o SubSeq(in, e + 1, Len(in))
    IN scaffold.content = wrapContent(expected, 1, 0, GetFixedColumns(scaffold, termCols))

\* C11: with prompt detection enabled, when the first line of the content
\* begins with a prompt glyph and a line follows it, AddContent yields the
\* highlighted first line, exactly one inserted blank line when the next line
\* is neither blank nor begins with a prompt glyph and none when it is or
\* does, then the rest of the content unchanged.
C11_BlankLineAfterPrompt ==
    (/\ scaffold.content # <<>>
     /\ ~scaffold.noPromptDetect
     /\ BeginsWithGlyph(LineFrom(in, 1))
     /\ FirstBreak(in) # 0 /\ FirstBreak(in) < Len(in)) =>
        LET next == LineFrom(in, FirstBreak(in) + 1) IN
        PromptLayout(~BlankLine(next) /\ ~BeginsWithGlyph(next))

\* C11, its case: a prompt line followed by a line of output, and the blank
\* line between them in the content
C11_Witness ==
    /\ ~scaffold.noPromptDetect
    /\ Len(in) >= 4
    /\ in[1].Symbol = HeavyAngle /\ in[2].Symbol = "l" /\ in[3].Symbol = NL
    /\ in[4].Symbol = "f"
    /\ Len(scaffold.content) >= 5
    /\ scaffold.content[3].Symbol = NL /\ scaffold.content[4].Symbol = NL
    /\ scaffold.content[5] = in[4]

\* the runes of str from index k (0-based) on start with ESC '[' and syms
CsiAt(str, k, syms) ==
    /\ k + 2 + Len(syms) <= Len(str)
    /\ SubSeq(str, k + 1, k + 2 + Len(syms)) = Csi(syms)

Min(a, b) == IF a < b THEN a ELSE b

\* the step leaves the cursor and every row but the current one as they were
OnlyCurrentRow ==
    /\ vt'.cursorX = vt.cursorX
    /\ vt'.cursorY = vt.cursorY
    /\ Len(vt'.lines) = Len(vt.lines)
    /\ \A r \in 1..Len(vt.lines) : r # vt.cursorY + 1 => vt'.lines[r] = vt.lines[r]

C13_CursorPositionIdempotent ==
    [][(pc = "loop" /\ pc' = "loop") =>
          \A syms \in {<<"H">>, <<"2", ";", "2", "H">>, <<"0", ";", "0", "f">>} :
              (/\ i >= 2 + Len(syms)
               /\ CsiAt(parsed, i - (2 + Len(syms)), syms)
               /\ CsiAt(parsed, i, syms)) => vt' = vt]_vars

\* C13, its case: CSI 2;2H has been processed twice after a text that left
\* the cursor at the end of a single row
C13_Witness ==
    /\ pc = "loop"
    /\ Len(parsed) >= 14
    /\ SubSeq(parsed, 1, 2) = <<Plain("x"), ColoredRune("y", Red)>>
    /\ CsiAt(parsed, 2, <<"2", ";", "2", "H">>)
    /\ CsiAt(parsed, 8, <<"2", ";", "2", "H">>)
    /\ i = 14
    /\ vt.cursorX = 1 /\ vt.cursorY = 1
    /\ vt.lines = << <<Plain("x"), ColoredRune("y", Red)>>, <<>> >>

\* C14: in every state reached during Parse, after a plain character, a
\* carriage return, a line break, a backspace or a CSI command with any
\* parameters, the cursor column and the cursor row are at least 0.
C14_CursorNotNegative == vt.cursorX >= 0 /\ vt.cursorY >= 0

\* the number of runes of result before row r (1-based): the rows before it
\* and a line break after each
RECURSIVE RowOffset(_, _)
RowOffset(lines, r) ==
    IF r = 1 THEN 0 ELSE RowOffset(lines, r - 1) + Len(lines[r - 1]) + 1

\* C15: the flattened grid of R rows is the rows' cells in row order with
\* exactly R - 1 line breaks, one between consecutive rows and none after the
\* last; each break has the settings of the last cell of the row before it,
\* or none when that row is empty.
C15_FlattenJoinsRows ==
    (pc = "done") =>
        LET R == Len(vt.lines) IN
        /\ R >= 1
        /\ Len(result) = RowOffset(vt.lines, R) + Len(vt.lines[R])
        /\ Cardinality({k \in 1..Len(result) : result[k].Symbol = NL}) = R - 1
        /\ \A r \in 1..R :
              LET row == vt.lines[r]
                  off == RowOffset(vt.lines, r)
              IN /\ SubSeq(result, off + 1, off + Len(row)) = row
                 /\ r < R =>
                       result[off + Len(row) + 1] =
                           ColoredRune(NL, IF row = <<>> THEN NoSettings
                                                         ELSE row[Len(row)].Settings)

\* C15, its case: three rows, the first ending in a coloured cell, the second
\* empty, flattened with a coloured break and a plain one
C15_Witness ==
    /\ pc = "done"
    /\ vt.lines = << <<Plain("x"), ColoredRune("y", Red)>>, <<>>, <<>> >>
    /\ result = <<Plain("x"), ColoredRune("y", Red), ColoredRune(NL, Red), Plain(NL)>>

Inside(p, r) == r.MinX <= p[1] /\ p[1] < r.MaxX /\ r.MinY <= p[2] /\ p[2] < r.MaxY

\* C16: with clip-canvas, what WritePNG encodes is the tightest box around
\* the pixels that are not fully transparent: every such pixel is inside it,
\* and each of its four edge rows and columns holds one.
C16_ClipIsTightBox ==
    (encoded # <<>> /\ clipCanvas /\ raster.opaque # {}) =>
        LET r == encoded[1].bounds IN
        /\ ~encoded[1].err
        /\ \A p \in raster.opaque : Inside(p, r)
        /\ \E p \in raster.opaque : p[1] = r.MinX
        /\ \E p \in raster.opaque : p[1] = r.MaxX - 1
        /\ \E p \in raster.opaque : p[2] = r.MinY
        /\ \E p \in raster.opaque : p[2] = r.MaxY - 1

\* a string of the form #RRGGBB or #RRGGBBAA
IsHexColor(hex) ==
    /\ Len(hex) \in {7, 9}
    /\ hex[1] = "#"
    /\ \A k \in 2..Len(hex) : IsHex(hex[k])

\* the theme of the scaffold has a valid hex colour in each of its 16 ANSI
\* entries
ValidAnsiEntries ==
    \A e \in standardColors : IsHexColor(scaffold.currentTheme[e[2]])

WithinFive(c, t) == \A k \in 1..3 : c[k] - t[k] \in -5..5

BadThemeFile ==
    LET file == themeFlags.themeFile IN
    /\ file.kind = "json"
    /\ \/ file.present # ThemeFields
       \/ \E f \in file.present : ~IsHexColor(file.values[f])

\* C19: a run whose theme file lacks a field or holds an invalid colour value
\* fails with the error of the load, and nothing stands in for the missing or
\* invalid field: the foreground colour of the scaffold never stays the one of
\* before, and a canonical colour is never drawn unmapped.
C19_BadThemeFileFails ==
    (BadThemeFile /\ themePc # "start") =>
        /\ themePc = "failed"
        /\ scaffold.defaultForegroundColor = NewImageCreator.defaultForegroundColor
           => IsHexColor(scaffold.currentTheme.Foreground)
        /\ themePc = "drawn" /\ (\E e \in standardColors : WithinFive(colorIn, e[1]))
           => colorOut # colorIn \o <<255>>

\* C18: when a run has ended, by a return or otherwise, none of the files it
\* opened (the temporary file of --edit, the output of --raw-write, the PNG
\* file) is still open, and the temporary file is removed.
C18_ResourcesReleased ==
    stage \in Ended => (open = {} /\ "tmpFile" \notin disk)

\* the name the image is to be written to: the one of --filename, "out.png"
\* when none is given
RequestedFilename ==
    IF flags.filename = <<>> THEN <<"o", "u", "t", ".", "p", "n", "g">> ELSE flags.filename

EndsWithPng(name) ==
    /\ Len(name) >= 4
    /\ SubSeq(name, Len(name) - 3, Len(name)) = <<".", "p", "n", "g">>

\* C20: in a run for a file (neither --raw-write nor --clipboard) whose name
\* does not end in the extension .png, the output stage returns the error of
\* the extension, and at no time has the image been drawn or the output file
\* been created; the run never ends well.
C20_OtherExtensionRejected ==
    [][(~flags.rawWrite /\ ~flags.clipboard /\ ~EndsWithPng(RequestedFilename)) =>
          /\ ~rasterized'
          /\ "file" \notin disk'
          /\ "file" \notin open'
          /\ stage' # "done"
          /\ stage = "save" => (stage' = "failed" /\ runErr' = "extension")]_vars

C20_Witness ==
    /\ stage = "failed"
    /\ runErr = "extension"
    /\ ~flags.rawWrite /\ ~flags.clipboard
    /\ flags.filename = <<"o", ".", "t", "x", "t">>
    /\ in = <<Plain("x")>>
    /\ ~rasterized
    /\ disk = {}

\* the prompt the command line is echoed with
EchoPrompt ==
    IF scaffold.customPrompt # <<>> THEN scaffold.customPrompt ELSE <<HeavyAngle>>

\* the echo of the command line by a scaffold that is as it is made
PlainEcho == AddCommand(NewImageCreator, flags.args, termCols).s.content

\* C21: the prompt glyph of the line AddCommand appends has one colour in
\* every configuration: the colour it has when the scaffold is as it is made
\* (no syntax highlighting, prompt detection on, the default prompt).
C21_PromptGlyphOneColour ==
    stage = "capture" =>
        /\ scaffold.content[1].Symbol = EchoPrompt[1]
        /\ scaffold.content[1].Settings = PlainEcho[1].Settings

\* the colour fixed for each category of token
CategoryColour(type) ==
    CASE type \in {"TokenCommand", "TokenPath"} -> Foreground(0, 255, 255)
      [] type \in {"TokenKeyword", "TokenNumber"} -> Foreground(255, 0, 255)
      [] type = "TokenFlag" -> Foreground(255, 255, 0)
      [] type = "TokenString" -> Foreground(0, 128, 0)
      [] type = "TokenVariable" -> Foreground(0, 0, 255)
      [] type = "TokenOperator" -> Foreground(255, 0, 0)
      [] type = "TokenComment" -> Foreground(105, 105, 105)
      [] OTHER -> NoSettings

\* the runes of the tokens, each in the colour of its category
RECURSIVE InCategoryColours(_)
InCategoryColours(tokens) ==
    IF tokens = <<>> THEN <<>>
    ELSE [k \in 1..Len(Head(tokens).Value) |->
             ColoredRune(runeOfByte(Head(tokens).Value[k]),
                         CategoryColour(Head(tokens).Type))]
         \o InCategoryColours(Tail(tokens))

\* C30: with syntax highlighting on, the echoed command follows the prompt
\* and a space in the content, every token of it in the colour of its
\* category, whatever the prompt and the prompt detection.
C30_TokensInCategoryColours ==
    (stage = "capture" /\ scaffold.syntaxHighlight) =>
        SubSeq(scaffold.content, Len(EchoPrompt) + 2, Len(scaffold.content) - 1)
            = InCategoryColours(Tokenize(Join(flags.args)))

\* C22: in a run with --raw-read, --show-cmd and --edit do nothing: the only
\* call out of RunE up to the content stage is the read of the file, there is
\* no temporary file, the buffer holds the file as it was read until it is
\* parsed or added, and nothing is added to the content ahead of it.
C22_RawReadBypasses ==
    flags.rawRead =>
        /\ called \subseteq {"readFile"}
        /\ "tmpFile" \notin (open \cup disk)
        /\ stage \in {"edit", "ansi"} => buf = source
        /\ stage \in {"setup", "showcmd", "capture", "edit", "ansi", "content"}
               => scaffold.content = <<>>

C22_Witness ==
    /\ flags.rawRead /\ flags.showCmd /\ flags.edit
    /\ stage = "ansi"
    /\ called = {"readFile"}
    /\ buf = <<Plain("x"), Plain(NL)>>

\* the loop of Parse is at a plain character
AtPlainCharacter ==
    /\ pc = "loop"
    /\ i < Len(parsed)
    /\ parsed[i + 1].Symbol \notin Controls

\* C23: a plain character processed with the cursor column at maxColumns or
\* beyond is placed at column 0 of the next row, the cursor ends at column 1
\* of that row, and the row the cursor left is as it was.
C23_WrapLeavesRow ==
    [][(AtPlainCharacter /\ vt.cursorX >= vt.maxColumns /\ vt.cursorY < Len(vt.lines)) =>
          /\ pc' = "loop"
          /\ vt'.cursorX = 1
          /\ vt'.cursorY = vt.cursorY + 1
          /\ vt'.lines[vt.cursorY + 2][1] = parsed[i + 1]
          /\ vt'.lines[vt.cursorY + 1] = vt.lines[vt.cursorY + 1]]_vars

\* the parameters of a cursor movement as they are written, with their
\* values: none (1), 0, 2 and the largest int
MoveParams == {<< <<>>, 1 >>, << <<"0">>, 0 >>, << <<"2">>, 2 >>, <<Itoa(MaxInt), MaxInt>>}

AtLeast0(n) == IF n < 0 THEN 0 ELSE n

\* C24: CSI nA sets the row to max(row-n, 0), CSI nB to row+n, a row that
\* then exists, CSI nC sets the column to column+n, CSI nD to max(column-n, 0)
\* and CSI nG to max(n-1, 0), for every n >= 0 and with n = 1 when there is no
\* parameter; the other coordinate stays.
C24_CursorMoves ==
    [][pc = "loop" =>
          \A q \in MoveParams :
              LET n == q[2]
                  At(letter) == CsiAt(parsed, i, Append(q[1], letter))
              IN /\ At("A") => /\ pc' = "loop"
                               /\ vt'.cursorY = AtLeast0(vt.cursorY - n)
                               /\ vt'.cursorX = vt.cursorX
                 /\ At("B") => /\ pc' = "loop"
                               /\ vt'.cursorY = vt.cursorY + n
                               /\ Len(vt'.lines) > vt.cursorY + n
                               /\ vt'.cursorX = vt.cursorX
                 /\ At("C") => /\ pc' = "loop"
                               /\ vt'.cursorX = vt.cursorX + n
                               /\ vt'.cursorY = vt.cursorY
                 /\ At("D") => /\ pc' = "loop"
                               /\ vt'.cursorX = AtLeast0(vt.cursorX - n)
                               /\ vt'.cursorY = vt.cursorY
                 /\ At("G") => /\ pc' = "loop"
                               /\ vt'.cursorX = AtLeast0(n - 1)
                               /\ vt'.cursorY = vt.cursorY]_vars

\* parameter lists of H and f as they are written, with the first and the
\* second parameter they stand for: an empty one in front of ';' is 0, one
\* that is missing is 1
PositionParams ==
    {<< <<"H">>, 1, 1 >>,
     << <<";", "5", "H">>, 0, 5 >>,
     << <<"3", ";", "H">>, 3, 1 >>,
     << <<"1", "0", ";", "3", "f">>, 10, 3 >>,
     << <<"2", ";", "2", "H">>, 2, 2 >>,
     << <<"0", ";", "0", "f">>, 0, 0 >>}

\* C25: CSI p1;p2 H (or f) puts the cursor at row max(p1-1, 0), column
\* max(p2-1, 0), a row that exists afterwards; the parameters are read in
\* decimal, an empty one in front of ';' as 0 and a missing one as 1.
C25_CursorPosition ==
    [][pc = "loop" =>
          \A q \in PositionParams :
              CsiAt(parsed, i, q[1]) =>
                  /\ pc' = "loop"
                  /\ i' = i + 2 + Len(q[1])
                  /\ vt'.cursorY = AtLeast0(q[2] - 1)
                  /\ vt'.cursorX = AtLeast0(q[3] - 1)
                  /\ Len(vt'.lines) > vt'.cursorY]_vars

\* C25, its case: ESC[;5H after a text of two rows has put the cursor at
\* row 0, column 4
C25_Witness ==
    /\ pc = "loop"
    /\ Len(parsed) >= 9
    /\ SubSeq(parsed, 1, 4) = <<Plain("x"), Plain(NL), ColoredRune("y", Red), Plain("x")>>
    /\ CsiAt(parsed, 4, <<";", "5", "H">>)
    /\ i = 9
    /\ vt.cursorY = 0 /\ vt.cursorX = 4
    /\ Len(vt.lines) = 2

BlankThroughCursor ==
    LET old == vt.lines[vt.cursorY + 1]
        new == vt'.lines[vt.cursorY + 1]
    IN /\ \A c \in 0..vt.cursorX : Len(new) > c /\ new[c + 1].Symbol = SP
       /\ \A c \in (vt.cursorX + 1)..(Len(old) - 1) : Len(new) > c /\ new[c + 1] = old[c + 1]

\* C27: erase mode 1 with the cursor at column c: after CSI 1K the current
\* row holds a space at every column 0..c and its cells after c are as they
\* were; CSI 1J does the same and leaves no cell but spaces in the rows
\* before; the number of rows and the cursor stay.  A column c and a row are
\* at least 0.
C27_EraseToBeginning ==
    [][(pc = "loop" /\ vt.cursorX >= 0 /\ vt.cursorY >= 0
           /\ (CsiAt(parsed, i, <<"1", "K">>) \/ CsiAt(parsed, i, <<"1", "J">>))) =>
          /\ pc' = "loop"
          /\ vt.cursorY < Len(vt.lines)
          /\ Len(vt'.lines) = Len(vt.lines)
          /\ vt'.cursorX = vt.cursorX
          /\ vt'.cursorY = vt.cursorY
          /\ BlankThroughCursor
          /\ CsiAt(parsed, i, <<"1", "J">>) =>
                \A r \in 1..vt.cursorY :
                    \A c \in 1..Len(vt'.lines[r]) : vt'.lines[r][c].Symbol = SP]_vars

\* a CSI sequence with a command letter that is none of the known ones
UnknownCsi == <<"2", "x">>

\* C28: at a CSI sequence with an unknown command letter Parse skips the ESC
\* alone and changes neither the cursor nor the grid; the '[', the parameter
\* characters and the letter are then processed as plain characters are:
\* each is written at the cursor, which moves one column on, when the cursor
\* column is inside the width of the terminal.
C28_UnknownCsiIsText ==
    [][pc = "loop" =>
          /\ CsiAt(parsed, i, UnknownCsi) =>
                /\ pc' = "loop"
                /\ i' = i + 1
                /\ vt' = vt
          /\ \A d \in 1..(1 + Len(UnknownCsi)) :
                (i >= d /\ CsiAt(parsed, i - d, UnknownCsi)) =>
                    /\ i' = characterBranch(parsed[i + 1], i, vt).i
                    /\ vt' = characterBranch(parsed[i + 1], i, vt).vt
                    /\ (pc' = "panic") = characterBranch(parsed[i + 1], i, vt).panic
                    /\ (0 <= vt.cursorX /\ vt.cursorX < vt.maxColumns) =>
                          /\ pc' = "loop"
                          /\ i' = i + 1
                          /\ vt'.cursorY = vt.cursorY
                          /\ vt'.cursorX = vt.cursorX + 1
                          /\ vt'.lines[vt.cursorY + 1][vt.cursorX + 1] = parsed[i + 1]]_vars

\* C28, its case: ESC[2x after the text "xy" has left the row "xy[2x"
C28_Witness ==
    /\ pc = "loop"
    /\ Len(parsed) = 6
    /\ SubSeq(parsed, 1, 2) = <<Plain("x"), ColoredRune("y", Red)>>
    /\ CsiAt(parsed, 2, UnknownCsi)
    /\ i = 6
    /\ vt.cursorX = 5 /\ vt.cursorY = 0
    /\ vt.lines = << <<Plain("x"), ColoredRune("y", Red), Plain("["), Plain("2"), Plain("x")>> >>

Max(a, b) == IF a > b THEN a ELSE b

\* C29: a carriage return sets the column to 0 and a backspace sets it to
\* max(column - 1, 0), neither changing the row or the grid; a plain character
\* processed with the cursor on a cell that exists, inside the width of the
\* terminal, replaces that cell and changes no other cell and no row's length.
C29_ReturnBackspaceOverwrite ==
    [][(pc = "loop" /\ i < Len(parsed)) =>
          /\ parsed[i + 1].Symbol = CR =>
                /\ pc' = "loop"
                /\ vt' = [vt EXCEPT !.cursorX = 0]
          /\ parsed[i + 1].Symbol = BS =>
                /\ pc' = "loop"
                /\ vt' = [vt EXCEPT !.cursorX = Max(vt.cursorX - 1, 0)]
          /\ ( /\ parsed[i + 1].Symbol \notin Controls
               /\ 0 <= vt.cursorY /\ vt.cursorY < Len(vt.lines)
               /\ 0 <= vt.cursorX /\ vt.cursorX < Len(vt.lines[vt.cursorY + 1])
               /\ vt.cursorX < vt.maxColumns ) =>
                /\ pc' = "loop"
                /\ vt'.lines = [vt.lines EXCEPT ![vt.cursorY + 1][vt.cursorX + 1] = parsed[i + 1]]]_vars

----------------------------------------------------------------------------
(* Prompt detection, the lexer, the grid and the colour remap.             *)

WhiteSpace == {SP, TAB}

\* the number of cells of line from position from (1-based) on that satisfy
\* white when white is TRUE, that do not when it is FALSE
RECURSIVE RunLength(_, _, _)
RunLength(line, from, white) ==
    IF from > Len(line) \/ (line[from].Symbol \in WhiteSpace) # white THEN 0
    ELSE 1 + RunLength(line, from + 1, white)

\* the accent of the command word: the green of the theme
SecondAccent(s) ==
    IF ParseColor(s.currentTheme.Green) = <<>> THEN FallbackGreen
    ELSE ParseColor(s.currentTheme.Green)

\* a prompt line with its glyph in the prompt accent, the first
\* whitespace-delimited word after it in the second accent, the rest as it is
Recoloured(s, line) ==
    LET wordStart == 2 + RunLength(line, 2, TRUE)
        wordStop == wordStart + RunLength(line, wordStart, FALSE)
    IN [k \in 1..Len(line) |->
          IF k = 1 THEN ColoredRune(line[k].Symbol, PromptAccent)
          ELSE IF wordStart <= k /\ k < wordStop
               THEN ColoredRune(line[k].Symbol, SecondAccent(s))
               ELSE line[k]]

\* C31: with prompt detection enabled, when the first line of the content
\* given to AddContent begins with a prompt glyph (and fits the width), the
\* content starts with that line recoloured: the glyph in the prompt accent,
\* the first word after it in the second accent, every other character as
\* decoded; also when the content is one line without a line break.
C31_PromptLineRecoloured ==
    LET line == LineFrom(in, 1) IN
    (/\ scaffold.content # <<>>
     /\ ~scaffold.noPromptDetect
     /\ BeginsWithGlyph(line)
     /\ Len(line) <= GetFixedColumns(scaffold, termCols)) =>
        /\ Len(scaffold.content) >= Len(line)
        /\ SubSeq(scaffold.content, 1, Len(line)) = Recoloured(scaffold, line)

\* where the tokens of the input start: for each iteration of the loop of
\* Tokenize from lx on, the position it starts at and the branch it takes
RECURSIVE TokenStarts(_, _)
TokenStarts(lx, first) ==
    IF lx.pos >= Len(lx.input) THEN <<>>
    ELSE LET r == tokenizeIteration(lx, first) IN
         IF r.l.pos <= lx.pos THEN <<>>
         ELSE <<[pos |-> lx.pos, branch |-> branchOf(lx)]>>
                 \o TokenStarts(r.l, r.isFirstWord)

\* the token that starts here is a '|', '&' or ';' operator, doubled or not
Separator(input, start) ==
    start.branch = "operator" /\ input[start.pos + 1] \in {124, 38, 59}

\* no bare word starts before position p since the start of the input or
\* since the last separator before p
FirstWordAt(input, p) ==
    LET starts == TokenStarts(NewLexer(input), TRUE)
        before == {k \in 1..Len(starts) : starts[k].pos < p}
        seps == {k \in before : Separator(input, starts[k])}
    IN \A k \in before :
          starts[k].branch = "word" => \E j \in seps : j > k

\* the type of a bare word: keyword if in the keyword set, else command name
\* if it is a first word, else path, number or default
WordType(word, isFirst) ==
    IF word \in shellKeywords THEN "TokenKeyword"
    ELSE IF isFirst THEN "TokenCommand"
    ELSE IF isPath(word) THEN "TokenPath"
    ELSE IF isNumber(word) THEN "TokenNumber"
    ELSE "TokenDefault"

\* C32: the bare word that Tokenize scans is a command-name token exactly
\* when it is the first word of the input or the first word after a '|',
\* '&' or ';' operator and is no keyword; a keyword token when it is in the
\* keyword set; otherwise a path, number or default token.
C32_WordClassification ==
    [][AtBranch("word") =>
          LET token == l'.tokens[Len(l'.tokens)] IN
          /\ Len(l'.tokens) = Len(l.tokens) + 1
          /\ token.Type = WordType(token.Value, FirstWordAt(l.input, l.pos))]_vars

\* C33: when Tokenize meets '#' at the start of a token it emits one comment
\* token that runs from the '#' to the end of the input, so that nothing is
\* left to tokenize after it.
C33_CommentToEndOfInput ==
    [][AtBranch("comment") =>
          /\ Len(l'.tokens) = Len(l.tokens) + 1
          /\ l'.tokens[Len(l'.tokens)] =
                 Token("TokenComment", slice(l, l.pos, Len(l.input)))
          /\ l'.pos = Len(l.input)]_vars

\* C34: in every state reached during Parse, after plain characters, line
\* breaks, the cursor movements A, B, H, f and the erase commands J and K,
\* the grid has at least one row and the cursor row is the index of a row.
C34_CursorRowExists ==
    /\ Len(vt.lines) >= 1
    /\ 0 <= vt.cursorY
    /\ vt.cursorY < Len(vt.lines)

\* C35: no cell of the grid ever holds ESC, a carriage return, a line break
\* or a backspace: each cell is a blank fill or a rune of the input that is
\* no control; the flattened result holds no ESC, carriage return or
\* backspace, and its line breaks are the separators of the rows, one less
\* than there are rows.
C35_NoControlInGrid ==
    /\ \A r \in 1..Len(vt.lines) : \A c \in 1..Len(vt.lines[r]) :
          \/ vt.lines[r][c] = BlankRune
          \/ /\ vt.lines[r][c].Symbol \notin Controls
             /\ \E k \in 1..Len(parsed) : parsed[k] = vt.lines[r][c]
    /\ pc = "done" =>
          /\ \A k \in 1..Len(result) : result[k].Symbol \notin {ESC, CR, BS}
          /\ Cardinality({k \in 1..Len(result) : result[k].Symbol = NL})
                = Len(vt.lines) - 1

\* C35, its case: an input of an ESC, a character, a backspace and a line
\* break has left the character alone in the grid
C35_Witness ==
    /\ pc = "done"
    /\ parsed = <<Plain(ESC), Plain("x"), Plain(BS), Plain(NL)>>
    /\ vt.lines = << <<Plain("x")>>, <<>> >>
    /\ result = <<Plain("x"), Plain(NL)>>

\* the command letters of the CSI sequences that only move the cursor
CursorOnly == {"A", "C", "D", "G", "s", "u"}

\* a CSI sequence starts at index k of str (0-based) and has a command
\* letter of the set letters after its parameters
CsiWithLetter(str, k, letters) ==
    /\ k + 2 < Len(str)
    /\ str[k + 1].Symbol = ESC
    /\ str[k + 2].Symbol = "["
    /\ LET s == scanParams(str, k + 2, <<>>, <<>>) IN
          s.i < Len(str) /\ str[s.i + 1].Symbol \in letters

\* C36: a carriage return, a backspace and the CSI commands A, C, D, G, s
\* and u, with any parameters and from any state, leave the grid as it is:
\* the number of rows and every cell of every row.
C36_CursorOnlyKeepsGrid ==
    [][(pc = "loop" /\ i < Len(parsed)
          /\ \/ parsed[i + 1].Symbol \in {CR, BS}
             \/ CsiWithLetter(parsed, i, CursorOnly)) =>
          /\ pc' = "loop"
          /\ vt'.lines = vt.lines]_vars

\* C36, its case: with "xy" and a line break on the screen, a cursor-up and
\* a cursor-forward by MaxInt have moved the cursor and left the two rows
C36_Witness ==
    /\ pc = "loop"
    /\ parsed = <<Plain("x"), ColoredRune("y", Red), Plain(NL)>>
                   \o Csi(<<"A">>) \o Csi(Append(Itoa(MaxInt), "C"))
    /\ i = Len(parsed)
    /\ vt.cursorY = 0 /\ vt.cursorX = MaxInt
    /\ vt.lines = << <<Plain("x"), ColoredRune("y", Red)>>, <<>> >>

\* C37: Tokenize terminates on every input: each iteration of its loop
\* advances the position by at least one byte, the position never passes the
\* end of the input, every token emitted has a Value that is not empty, and
\* the loop comes to its end.
C37_TokenizeTerminates ==
    /\ [](/\ 0 <= l.pos /\ l.pos <= Len(l.input)
          /\ \A k \in 1..Len(l.tokens) : l.tokens[k].Value # <<>>)
    /\ [][(lexpc = "loop" /\ lexpc' = "loop") =>
            /\ l'.pos >= l.pos + 1
            /\ Len(l'.tokens) = Len(l.tokens) + 1]_vars
    /\ <>(lexpc = "done")

\* C37, its case: Tokenize has come to the end of c"\" in two tokens, the
\* string scan having skipped two bytes at the backslash
C37_Witness ==
    /\ lexpc = "done"
    /\ l.input = <<99, 34, 92, 34>>
    /\ l.pos = 4
    /\ Len(l.tokens) = 2
    /\ l.tokens[2] = Token("TokenString", <<34, 92, 34>>)

\* the values a colour component can have
ComponentValues == 0..255

\* two canonical triplets have a component in which no value is within the
\* tolerance of both, so that no colour is within the tolerance of both
Apart(t, u) ==
    \E c \in 1..3 : \A x \in ComponentValues :
        ~(Abs(x - t[c]) <= tolerance /\ Abs(x - u[c]) <= tolerance)

\* the map has 16 triplets, and any two of them are apart
TripletsApart ==
    /\ Cardinality({e[1] : e \in standardColors}) = 16
    /\ \A e \in standardColors : \A f \in standardColors :
          e[1] # f[1] => Apart(e[1], f[1])

\* the canonical triplets within the tolerance of the colour c
NearTriplets(c) == {e \in standardColors : WithinFive(c, e[1])}

\* C39: remapAnsiColor is deterministic: no colour with components in
\* 0..255 is within the tolerance of two of the 16 canonical triplets, so for
\* the colour drawn at most one triplet is near, and remapAnsiColor has one
\* possible result whatever the order of the map, which is the colour
\* returned.
C39_RemapDeterministic ==
    /\ TripletsApart
    /\ themePc = "drawn" =>
          /\ Cardinality(NearTriplets(colorIn)) <= 1
          /\ remapAnsiColor(scaffold, colorIn[1], colorIn[2], colorIn[3]) = {colorOut}

\* C39, its case: under catppuccin-mocha a colour 5 off bright white in two
\* components has been drawn in the bright white of the theme
C39_Witness ==
    /\ themePc = "drawn"
    /\ themeFlags.theme = "catppuccin-mocha"
    /\ themeFlags.themeFile = NoThemeFile
    /\ colorIn = <<250, 250, 255>>
    /\ NearTriplets(colorIn) = {<<<<255, 255, 255>>, "BrightWhite">>}
    /\ colorOut = ParseRGBA(scaffold.currentTheme.BrightWhite)

\* out has the symbols of str in their order, or those with one more line
\* break directly after the first line break of str, and the runes after the
\* first line and its break are those of str unchanged, style too
SameButOneBreak(str, out) ==
    LET e == FirstBreak(str) IN
    /\ \/ Symbols(out) = Symbols(str)
       \/ /\ e # 0
          /\ Symbols(out) = Symbols(SubSeq(str, 1, e)) \o <<NL>>
                               \o Symbols(SubSeq(str, e + 1, Len(str)))
    /\ e # 0 =>
          /\ Len(out) >= Len(str)
          /\ SubSeq(out, Len(out) - (Len(str) - e) + 1, Len(out))
                = SubSeq(str, e + 1, Len(str))

\* C38: prompt detection alters the sequence of characters by at most one
\* inserted line break: the content AddContent wraps is the result of
\* enhanceRawContent, whose symbols are those of the input in the same order
\* but for at most one more line break directly after the break of the first
\* line; everything after the first line keeps its style as well.
C38_DetectionKeepsCharacters ==
    scaffold.content # <<>> =>
        LET out == enhanceRawContent(scaffold, in) IN
        /\ scaffold.content = wrapContent(out, 1, 0, GetFixedColumns(scaffold, termCols))
        /\ SameButOneBreak(in, out)

\* C38, its case: the content "$ l", a line break and a coloured "f" has its
\* prompt line recoloured and one line break more, before the "f" as it was
C38_Witness ==
    /\ ~scaffold.noPromptDetect
    /\ in = <<Plain("$"), Plain(SP), Plain("l"), Plain(NL), ColoredRune("f", Red)>>
    /\ enhanceRawContent(scaffold, in)
          = <<ColoredRune("$", PromptAccent), Plain(SP),
              ColoredRune("l", SecondAccent(scaffold)), Plain(NL), Plain(NL),
              ColoredRune("f", Red)>>
    /\ scaffold.content = enhanceRawContent(scaffold, in)

====
